---------------------------- MODULE Spec2Model ----------------------------
(***************************************************************************)
(* Trade simulator of src/services/ml/ProfessionalBacktesting.ts.          *)
(*                                                                         *)
(* Numbers.  The source computes in IEEE doubles; the model computes in    *)
(* fixed point and rounds every product and quotient down:                 *)
(*   - money and prices are integers of cents (1 unit = 0.01),             *)
(*   - fractions (positionSize, commission, slippage, maxDrawdown,         *)
(*     confidence, drawdown) and quantities are integers of 1/Scale,       *)
(*   - timestamps are hours (the source's milliseconds / 3 600 000).       *)
(* Every comparison the source makes between a quotient and a threshold is *)
(* decided exactly (on the quotient and its remainder), so a guard never   *)
(* flips because of the rounding of a stored value.                        *)
(***************************************************************************)
EXTENDS Integers, Sequences, FiniteSets, TLC

\* ------------------------------------------------------------------ bounds
\* Longest candle series and longest prediction series a run is given.
MaxCandles == 3
MaxPreds == 2
\* Invocations of runBacktest on the one simulator instance.
MaxRuns == 2
\* Longest candle array given to extractFeatures and generatePrediction.
MaxWindow == 5
\* Calls of extractFeatures and generatePrediction on the one pipeline.
MaxCalls == 2
\* Calls of updatePerformanceMetrics on the one pipeline.
MaxUpdates == 4
\* Longest candle series whose features are extracted.
MaxSeries == 27
\* Calls of subscribe, unsubscribe and publish on the event bus.
MaxOps == 4

\* ------------------------------------------------------------- fixed point
\* One is Scale/Scale: the unit of fractions and quantities.
Scale == 100 * 100

\* floor(x * f / Scale), f >= 0, without leaving 32 bits.
Mul(x, f) == (x \div Scale) * f + ((x % Scale) * f) \div Scale

\* floor(x * Scale / y), y > 0: the quotient x / y as a fraction.
Ratio(x, y) ==
  LET q0 == x \div y
      r0 == x % y
      q1 == (r0 * 100) \div y
      r1 == (r0 * 100) % y
      q2 == (r1 * 100) \div y
  IN q0 * Scale + q1 * 100 + q2

\* What Ratio rounds away: x * Scale = Ratio(x, y) * y + RatioRem(x, y).
RatioRem(x, y) == (((((x % y) * 100) % y) * 100) % y)

\* x / y > m / Scale, x / y >= m / Scale, decided exactly (y > 0).
FracGT(x, y, m) == Ratio(x, y) > m \/ (Ratio(x, y) = m /\ RatioRem(x, y) > 0)
FracGE(x, y, m) == Ratio(x, y) >= m

Max(a, b) == IF a >= b THEN a ELSE b
Min(a, b) == IF a <= b THEN a ELSE b
Abs(x) == IF x < 0 THEN 0 - x ELSE x

Range(s) == {s[k] : k \in 1..Len(s)}

\* the largest and the smallest element of a sequence that is not empty
RECURSIVE MaxOf(_)
MaxOf(q) == IF Len(q) = 1 THEN q[1] ELSE Max(q[1], MaxOf(Tail(q)))

RECURSIVE MinOf(_)
MinOf(q) == IF Len(q) = 1 THEN q[1] ELSE Min(q[1], MinOf(Tail(q)))

\* The values of a JavaScript number that are not finite, as integers no
\* fraction or amount of the model comes near.
Infinity == 2000000000
NegativeInfinity == 0 - Infinity
NaN == 0 - 2000000001

IsFinite(x) == x # Infinity /\ x # NegativeInfinity /\ x # NaN

\* Math.max(...q): -Infinity for an empty array
MathMax(q) == IF q = <<>> THEN NegativeInfinity ELSE MaxOf(q)

\* x * amount, x a fraction that may be infinite, amount an amount of money
Times(x, amount) ==
  IF x = NaN \/ (~IsFinite(x) /\ amount = 0) THEN NaN
  ELSE IF ~IsFinite(x) THEN (IF amount > 0 THEN x ELSE 0 - x)
  ELSE Mul(amount, x)

\* A field a TypeScript object does not have yet (exitTime?, pnl?, ...).
\* It is only ever read on a closed trade, where it has been assigned.
Undefined == 0 - 1

\* --------------------------------------------------------------- BacktestConfig
\* private config = { initialCapital: 10000, positionSize: 0.02, ... }
DefaultConfig ==
  [initialCapital |-> 10000 * 100,
   positionSize |-> 200,
   commission |-> 10,
   slippage |-> 5,
   maxDrawdown |-> 2000,
   maxConcurrentTrades |-> 5,
   riskFreeRate |-> 200]

\* { ...base, ...over }: a Partial<BacktestConfig> is a set of <<field, value>>.
MergeConfig(base, over) ==
  [f \in DOMAIN base |->
     IF \E p \in over : p[1] = f
       THEN (CHOOSE p \in over : p[1] = f)[2]
       ELSE base[f]]

\* The Partial<BacktestConfig> arguments a caller passes.
Overrides ==
  { {},
    {<<"maxDrawdown", 0>>},
    {<<"maxConcurrentTrades", 1>>},
    {<<"positionSize", Scale>>, <<"commission", Scale>>} }

\* ------------------------------------------------------------------ inputs
\* CandleData without volume and candle_index, which the simulator never
\* reads.  A quiet bar at 1000.00, a bar that closes where it opened after a
\* 3% range, and a bar that opens at 1000.00 and closes 6% lower.
Bars ==
  { [open |-> 100000, high |-> 100000, low |-> 100000, close |-> 100000],
    [open |-> 100000, high |-> 102000, low |-> 99000, close |-> 100000],
    [open |-> 100000, high |-> 100000, low |-> 94000, close |-> 94000] }

\* Hours between two candles of a series.
Intervals == {1, 25}

MkCandles(bars, iv) ==
  [k \in 1..Len(bars) |->
     [open |-> bars[k].open, high |-> bars[k].high, low |-> bars[k].low,
      close |-> bars[k].close, timestamp |-> (k - 1) * iv]]

SeqsUpTo(S, n) == UNION {[1..m -> S] : m \in 0..n}

CandleSeries == {MkCandles(b, iv) : b \in SeqsUpTo(Bars, MaxCandles), iv \in Intervals}

\* PredictionResult: the simulator reads direction and confidence only.
Preds ==
  { [direction |-> "up", confidence |-> 9000],
    [direction |-> "down", confidence |-> 7000],
    [direction |-> "up", confidence |-> 5000] }

PredictionSeries == SeqsUpTo(Preds, MaxPreds)

\* ------------------------------------------------------- program constants
\* if (prediction.confidence < 0.6) return false
MinConfidence == 6000
\* if (positionValue < 100) return false   (100.00 in cents)
MinPositionValue == 10000
\* return prediction.confidence > 0.8
VolatileConfidence == 8000
\* return volatility > 0.02
VolatilityLimit == 200
\* const maxDuration = 24 * 60 * 60 * 1000   (in hours)
maxDuration == 24
\* const stopLoss = -0.02, const profitTarget = 0.04
stopLoss == 0 - 200
profitTarget == 400
\* if (priceChange > 0.01)
TrailingStart == 100

\* ------------------------------------------------------------ pure helpers
\* candle.open +/- candle.open * slippage, against the trader
calculateEntryPrice(candle, direction, cfg) ==
  LET basePrice == candle.open
      slippageAmount == Mul(basePrice, cfg.slippage)
  IN IF direction = "up" THEN basePrice + slippageAmount
                         ELSE basePrice - slippageAmount

\* the exit filled at the candle's open, as an entry is
calculateExitPriceAtOpen(candle, direction, cfg) ==
  LET basePrice == candle.open
      slippageAmount == Mul(basePrice, cfg.slippage)
  IN IF direction = "long" THEN basePrice - slippageAmount
                           ELSE basePrice + slippageAmount

\* candle.close -/+ candle.close * slippage, against the trader
calculateExitPrice(candle, direction, cfg) ==
  LET basePrice == candle.close
      slippageAmount == Mul(basePrice, cfg.slippage)
  IN IF direction = "long" THEN basePrice - slippageAmount
                           ELSE basePrice + slippageAmount

\* (peakCapital - currentCapital) / peakCapital as <<numerator, denominator>>;
\* 0 when peakCapital is 0.  The model's capital starts positive and the peak
\* never falls, so the denominator is positive.
getCurrentDrawdown(s) ==
  IF s.peakCapital = 0 THEN <<0, 1>>
  ELSE <<s.peakCapital - s.currentCapital, s.peakCapital>>

\* getCurrentDrawdown() > maxDrawdown
ExceedsMaxDrawdown(s, cfg) ==
  LET dd == getCurrentDrawdown(s) IN FracGT(dd[1], dd[2], cfg.maxDrawdown)

\* getCurrentDrawdown() > maxDrawdown * 0.8
NearMaxDrawdown(s, cfg) ==
  LET dd == getCurrentDrawdown(s) IN FracGT(10 * dd[1], dd[2], 8 * cfg.maxDrawdown)

\* the volatility filter switched off
isMarketVolatileIgnoringRange(candle) == FALSE

\* (high - low) / close > 0.02
isMarketVolatile(candle) ==
  FracGT(candle.high - candle.low, candle.close, VolatilityLimit)

\* `>` where the source has `>=` on the number of open trades
shouldEnterTradeOneTooMany(s, prediction, candle, cfg) ==
  IF prediction.confidence < MinConfidence THEN FALSE
  ELSE IF Len(s.openTrades) > cfg.maxConcurrentTrades THEN FALSE
  ELSE IF Mul(s.currentCapital, cfg.positionSize) < MinPositionValue THEN FALSE
  ELSE IF NearMaxDrawdown(s, cfg) THEN FALSE
  ELSE IF isMarketVolatile(candle) THEN prediction.confidence > VolatileConfidence
  ELSE TRUE

shouldEnterTrade(s, prediction, candle, cfg) ==
  IF prediction.confidence < MinConfidence THEN FALSE
  ELSE IF Len(s.openTrades) >= cfg.maxConcurrentTrades THEN FALSE
  ELSE IF Mul(s.currentCapital, cfg.positionSize) < MinPositionValue THEN FALSE
  ELSE IF NearMaxDrawdown(s, cfg) THEN FALSE
  ELSE IF isMarketVolatile(candle) THEN prediction.confidence > VolatileConfidence
  ELSE TRUE

\* enterTrade: the trade is filled on the next candle; only the costs are
\* debited.  id is the value SecureRandom.uuid() returns.
enterTrade(s, id, prediction, nextCandle, cfg) ==
  LET positionValue == Mul(s.currentCapital, cfg.positionSize)
      entryPrice == calculateEntryPrice(nextCandle, prediction.direction, cfg)
      quantity == Ratio(positionValue, entryPrice)
      commission == Mul(positionValue, cfg.commission)
      slippage == Mul(positionValue, cfg.slippage)
      totalCosts == commission + slippage
      trade == [id |-> id,
                entryTime |-> nextCandle.timestamp,
                exitTime |-> Undefined,
                entryPrice |-> entryPrice,
                exitPrice |-> Undefined,
                direction |-> IF prediction.direction = "up" THEN "long" ELSE "short",
                quantity |-> quantity,
                commission |-> commission,
                slippage |-> slippage,
                pnl |-> Undefined,
                pnlPercentage |-> Undefined,
                status |-> "open",
                prediction |-> prediction]
  IN [s EXCEPT !.currentCapital = s.currentCapital - totalCosts,
               !.openTrades = Append(s.openTrades, trade)]

\* closeTrade, lines 325-351: the exit fill of `trade` on `candle`: the
\* trade as closed and what the close adds to the capital.
exitFill(trade, candle, cfg) ==
  LET exitPrice == calculateExitPrice(candle, trade.direction, cfg)
      priceChange == IF trade.direction = "long"
                       THEN exitPrice - trade.entryPrice
                       ELSE trade.entryPrice - exitPrice
      grossPnL == Mul(priceChange, trade.quantity)
      positionValue == Mul(exitPrice, trade.quantity)
      exitCommission == Mul(positionValue, cfg.commission)
      exitSlippage == Mul(positionValue, cfg.slippage)
      totalExitCosts == exitCommission + exitSlippage
      netPnL == grossPnL - totalExitCosts
      entryValue == Mul(trade.entryPrice, trade.quantity)
  IN [closed |-> [trade EXCEPT !.exitTime = candle.timestamp,
                               !.exitPrice = exitPrice,
                               !.pnl = netPnL,
                               !.pnlPercentage = IF entryValue > 0
                                                   THEN Ratio(netPnL, entryValue)
                                                   ELSE Undefined,
                               !.commission = trade.commission + exitCommission,
                               !.slippage = trade.slippage + exitSlippage,
                               !.status = "closed"],
      credit |-> positionValue + netPnL]

\* closeTrade without `this.openTrades = this.openTrades.filter(...)`
closeTradeKeepingItOpen(s, trade, candle, cfg) ==
  LET fill == exitFill(trade, candle, cfg)
      capital == s.currentCapital + fill.credit
  IN [s EXCEPT !.currentCapital = capital,
               !.peakCapital = Max(s.peakCapital, capital),
               !.trades = Append(s.trades, fill.closed)]

\* closeTrade: books the exit fill and moves the trade from openTrades to
\* trades.
closeTrade(s, trade, candle, cfg) ==
  LET fill == exitFill(trade, candle, cfg)
      capital == s.currentCapital + fill.credit
  IN [s EXCEPT !.currentCapital = capital,
               !.peakCapital = Max(s.peakCapital, capital),
               !.openTrades = SelectSeq(s.openTrades, LAMBDA t : t.id # trade.id),
               !.trades = Append(s.trades, fill.closed)]

\* closeTrade on each trade of `list`, in order
RECURSIVE closeEach(_, _, _, _)
closeEach(s, list, candle, cfg) ==
  IF list = <<>> THEN s
  ELSE closeEach(closeTrade(s, Head(list), candle, cfg), Tail(list), candle, cfg)

\* the exit rules with `>=` where the source has `tradeDuration > maxDuration`
shouldCloseAtMaxDuration(trade, currentCandle) ==
  LET change == IF trade.direction = "long"
                  THEN currentCandle.close - trade.entryPrice
                  ELSE trade.entryPrice - currentCandle.close
  IN \/ currentCandle.timestamp - trade.entryTime >= maxDuration
     \/ ~FracGT(change, trade.entryPrice, stopLoss)
     \/ FracGE(change, trade.entryPrice, profitTarget)

\* The exit rules of processExitSignals for one open trade at currentCandle.
shouldClose(trade, currentCandle) ==
  LET tradeDuration == currentCandle.timestamp - trade.entryTime
      currentPrice == currentCandle.close
      change == IF trade.direction = "long"
                  THEN currentPrice - trade.entryPrice
                  ELSE trade.entryPrice - currentPrice
      \* priceChange = change / entryPrice
      timeLimit == tradeDuration > maxDuration
      stop == ~FracGT(change, trade.entryPrice, stopLoss)
      target == FracGE(change, trade.entryPrice, profitTarget)
      \* trailingStop = priceChange * 0.5; priceChange < trailingStop
      trailing == FracGT(change, trade.entryPrice, TrailingStart)
                  /\ 2 * change < change
  IN timeLimit \/ stop \/ target \/ trailing

\* the sequence q in reverse
RECURSIVE Reverse(_)
Reverse(q) == IF q = <<>> THEN <<>> ELSE Append(Reverse(Tail(q)), Head(q))

\* processExitSignals closing the chosen trades newest first
processExitSignalsNewestFirst(s, currentCandle, nextCandle, cfg) ==
  LET tradesToClose == SelectSeq(s.openTrades, LAMBDA t : shouldClose(t, currentCandle))
  IN closeEach(s, Reverse(tradesToClose), nextCandle, cfg)

\* processExitSignals filling the exits on the candle they were decided on
processExitSignalsOnCurrentCandle(s, currentCandle, nextCandle, cfg) ==
  LET tradesToClose == SelectSeq(s.openTrades, LAMBDA t : shouldClose(t, currentCandle))
  IN closeEach(s, tradesToClose, currentCandle, cfg)

\* processExitSignals: decide on every open trade against currentCandle,
\* then close the chosen ones on nextCandle.
processExitSignals(s, currentCandle, nextCandle, cfg) ==
  LET tradesToClose == SelectSeq(s.openTrades, LAMBDA t : shouldClose(t, currentCandle))
  IN closeEach(s, tradesToClose, nextCandle, cfg)

\* closeAllTrades: close a copy of openTrades on lastCandle
closeAllTrades(s, lastCandle, cfg) ==
  closeEach(s, s.openTrades, lastCandle, cfg)

\* updateEquityCurve overwriting the latest point where the source pushes
updateEquityCurveReplacingLast(s, timestamp) ==
  LET point == [timestamp |-> timestamp, equity |-> s.currentCapital, drawdown |-> 0]
  IN [s EXCEPT !.equityCurve =
        IF s.equityCurve = <<>> THEN <<point>>
        ELSE [s.equityCurve EXCEPT ![Len(s.equityCurve)] = point]]

\* updateEquityCurve: unrealized P&L is 0 in the source, so equity is the
\* capital; drawdown = peak > 0 ? (peak - equity) / peak : 0
updateEquityCurve(s, timestamp) ==
  LET totalEquity == s.currentCapital
      drawdown == IF s.peakCapital > 0
                    THEN Ratio(s.peakCapital - totalEquity, s.peakCapital)
                    ELSE 0
  IN [s EXCEPT !.equityCurve = Append(s.equityCurve,
        [timestamp |-> timestamp, equity |-> totalEquity, drawdown |-> drawdown])]


RECURSIVE SumSeq(_)
SumSeq(q) == IF q = <<>> THEN 0 ELSE Head(q) + SumSeq(Tail(q))

Field(q, f) == [k \in 1..Len(q) |-> q[k][f]]

\* Math.sqrt on a natural number, rounded down
RECURSIVE SqrtBetween(_, _, _)
SqrtBetween(x, lo, hi) ==
  IF lo >= hi THEN lo
  ELSE LET mid == (lo + hi + 1) \div 2
       IN IF mid * mid <= x THEN SqrtBetween(x, mid, hi)
                            ELSE SqrtBetween(x, lo, mid - 1)

MathSqrt(x) == SqrtBetween(x, 0, Min(x, 46340))

\* x / y in JavaScript, x and y in one unit, the quotient as a fraction:
\* dividing by 0 gives NaN or an infinity, dividing by an infinity 0
Divide(x, y) ==
  IF x = NaN \/ y = NaN THEN NaN
  ELSE IF ~IsFinite(y) THEN 0
  ELSE IF y = 0 THEN (IF x = 0 THEN NaN ELSE IF x > 0 THEN Infinity ELSE NegativeInfinity)
  ELSE IF y > 0 THEN Ratio(x, y)
  ELSE Ratio(0 - x, 0 - y)

\* Math.sqrt(mean of the squares) of integers that are not all 0, in their
\* unit and at least one unit; 0 when all are 0.  The values are taken
\* relative to the largest, so that no square leaves 32 bits.
RootMeanSquare(q) ==
  LET largest == MaxOf([k \in 1..Len(q) |-> Abs(q[k])])
      relative == [k \in 1..Len(q) |-> Ratio(Abs(q[k]), largest)]
      squares == [k \in 1..Len(q) |-> (relative[k] * relative[k]) \div Len(q)]
  IN IF largest = 0 THEN 0
     ELSE Max(1, Mul(largest, MathSqrt(SumSeq(squares))))

\* calculateReturns: (currentEquity - prevEquity) / prevEquity for every
\* point after the first whose predecessor has positive equity
calculateReturns(curve) ==
  LET steps == SelectSeq([k \in 1..(Len(curve) - 1) |-> k],
                         LAMBDA k : curve[k].equity > 0)
  IN [j \in 1..Len(steps) |->
        Ratio(curve[steps[j] + 1].equity - curve[steps[j]].equity,
              curve[steps[j]].equity)]

\* calculateVolatility times returns.length: the root of the mean squared
\* deviation from the mean, the deviations taken as n * r - sum(r); 0 for no
\* returns, and positive exactly when two returns differ
volatilityTimesLength(returns) ==
  IF Len(returns) = 0 THEN 0
  ELSE RootMeanSquare([k \in 1..Len(returns) |->
                         Len(returns) * returns[k] - SumSeq(returns)])

\* volatility > 0 ? (avgReturn - riskFreeRate / 252) / volatility : 0
sharpeRatioOf(returns, cfg) ==
  LET spread == volatilityTimesLength(returns)
  IN IF spread > 0
       THEN Divide(252 * SumSeq(returns) - Len(returns) * cfg.riskFreeRate,
                   252 * spread)
       ELSE 0

\* calculateSortinoRatio; the excess returns r - riskFreeRate / 252 are taken
\* in 252nds of the unit of fractions, where they are integers
calculateSortinoRatio(returns, cfg) ==
  LET excessReturns == [k \in 1..Len(returns) |-> 252 * returns[k] - cfg.riskFreeRate]
      downside == SelectSeq(excessReturns, LAMBDA r : r < 0)
  IN IF Len(downside) = 0 THEN 0
     ELSE LET downDeviation == RootMeanSquare(downside)
          IN IF downDeviation > 0
               THEN Divide(SumSeq(excessReturns), Len(excessReturns) * downDeviation)
               ELSE 0

\* winningTrades.length / closedTrades.length without its guard
winRateUnguarded(winning, closed) == Divide(winning, closed)

\* closedTrades.length > 0 ? winningTrades.length / closedTrades.length : 0
winRateOf(winning, closed) == IF closed > 0 THEN Divide(winning, closed) ELSE 0

\* the mean pnl of `list`, 0 for an empty list
averagePnL(list) ==
  IF Len(list) > 0 THEN SumSeq(Field(list, "pnl")) \div Len(list) ELSE 0

\* averageLoss < 0 ? -averageWin / averageLoss : 0
profitFactorOf(averageWin, averageLoss) ==
  IF averageLoss < 0 THEN Divide(0 - averageWin, averageLoss) ELSE 0

\* maxDrawdownPercentage > 0 ? totalPnLPercentage / maxDrawdownPercentage : 0
\* (calmarRatio and recoveryFactor)
returnOverDrawdown(totalPnLPercentage, maxDrawdownPercentage) ==
  IF maxDrawdownPercentage > 0
    THEN Divide(totalPnLPercentage, maxDrawdownPercentage)
    ELSE 0

\* const maxDrawdown = Math.max(...this.equityCurve.map(e => e.drawdown))
maxDrawdownOf(curve) == MathMax(Field(curve, "drawdown"))

\* calculateBacktestResults: the fields of the report that are sums and
\* copies of the ledger, the equity curve and the configuration, the maximum
\* drawdown and the ratios.
calculateBacktestResults(s, cfg) ==
  LET closedTrades == SelectSeq(s.trades, LAMBDA t : t.status = "closed")
      winningTrades == SelectSeq(closedTrades, LAMBDA t : t.pnl > 0)
      losingTrades == SelectSeq(closedTrades, LAMBDA t : t.pnl <= 0)
      totalPnL == SumSeq(Field(closedTrades, "pnl"))
      totalPnLPercentage == Divide(totalPnL, cfg.initialCapital)
      maxDrawdown == maxDrawdownOf(s.equityCurve)
      maxDrawdownPercentage == maxDrawdown
      returns == calculateReturns(s.equityCurve)
  IN [totalTrades |-> Len(closedTrades),
      winRate |-> winRateOf(Len(winningTrades), Len(closedTrades)),
      maxDrawdown |-> Times(maxDrawdown, cfg.initialCapital),
      maxDrawdownPercentage |-> maxDrawdownPercentage,
      sharpeRatio |-> sharpeRatioOf(returns, cfg),
      sortinoRatio |-> calculateSortinoRatio(returns, cfg),
      calmarRatio |-> returnOverDrawdown(totalPnLPercentage, maxDrawdownPercentage),
      profitFactor |-> profitFactorOf(averagePnL(winningTrades), averagePnL(losingTrades)),
      recoveryFactor |-> returnOverDrawdown(totalPnLPercentage, maxDrawdownPercentage),
      dailyReturns |-> returns,
      totalPnL |-> totalPnL,
      finalCapital |-> s.currentCapital,
      totalCommissions |-> SumSeq(Field(closedTrades, "commission")),
      totalSlippage |-> SumSeq(Field(closedTrades, "slippage")),
      trades |-> closedTrades,
      equityCurve |-> s.equityCurve,
      config |-> cfg]

\* ------------------------------------------------------------------- state
VARIABLES
  config,          \* this.config
  currentCapital,  \* this.currentCapital
  peakCapital,     \* this.peakCapital
  trades,          \* this.trades: the closed ledger
  openTrades,      \* this.openTrades
  equityCurve,     \* this.equityCurve
  calls,           \* the activations of runBacktest: arguments, locals, position
  runs,            \* how many times runBacktest has been invoked
  running,         \* the activation that holds the JavaScript thread, or 0
  microtasks,      \* the activations suspended at an await, oldest first
  pipeline,        \* the AdvancedMLPipeline instance (advancedMLPipeline)
  eventBus         \* the TypeSafeEventBus instance (eventBus)

vars == <<config, currentCapital, peakCapital, trades, openTrades, equityCurve,
          calls, runs, running, microtasks, pipeline, eventBus>>

\* the state of the trade simulator, which no method of the pipeline touches
simVars == <<config, currentCapital, peakCapital, trades, openTrades, equityCurve,
             calls, runs, running, microtasks>>

CallIds == {1, 2}

\* The simulator's fields as one record, for the operators above.
Sim ==
  [currentCapital |-> currentCapital, peakCapital |-> peakCapital,
   trades |-> trades, openTrades |-> openTrades, equityCurve |-> equityCurve]

SetSim(s) ==
  /\ currentCapital' = s.currentCapital
  /\ peakCapital' = s.peakCapital
  /\ trades' = s.trades
  /\ openTrades' = s.openTrades
  /\ equityCurve' = s.equityCurve

\* An activation that has not been invoked.  `seen` holds, while the
\* activation is suspended, the simulator's fields as it left them; `results`
\* holds the report once it has returned.
\* `raised` holds the exception a step of the activation has raised, `logged`
\* what its catch block has logged and `thrown` what it has thrown to the
\* caller.
IdleCall ==
  [pc |-> "idle", run |-> 0, i |-> 0, candles |-> <<>>, predictions |-> <<>>,
   config |-> {}, issued |-> 0, halted |-> FALSE, seen |-> <<>>, results |-> <<>>,
   raised |-> <<>>, logged |-> <<>>, thrown |-> <<>>]

\* candles[i], predictions[i] of the source (0-based)
At(q, i) == q[i + 1]

\* AdvancedMLPipeline after construction: nothing loaded, nothing cached, all
\* counters 0.  `storage` is what secureStorage holds under
\* 'ml_performance_metrics' and `saving` the setItem calls not yet settled.
\* The other fields record calls and their outcomes: the latest extraction
\* or prediction call (`last`), the latest application of the scorer
\* (`lastScore`), how many extraction calls were made, and, for
\* updatePerformanceMetrics, how many calls were made, how many of them had a
\* matching direction, how many have completed and how many have raised.
NewPipeline ==
  [isModelLoaded |-> FALSE,
   featureCache |-> {},
   performanceMetrics |-> [accuracy |-> 0, winRate |-> 0, totalTrades |-> 0],
   storage |-> <<>>,
   saving |-> <<>>,
   last |-> <<>>,
   lastScore |-> <<>>,
   extractions |-> 0,
   updates |-> 0,
   matches |-> 0,
   completed |-> 0,
   raised |-> 0]

\* TypeSafeEventBus after construction: no handlers, no history.  `bound`
\* counts the functions Function.prototype.bind has created, each a new
\* object, and `log` records the calls made on the bus: for a publish, the
\* observers whose handle ran, in order.
NewEventBus ==
  [handlers |-> <<>>, eventHistory |-> <<>>, bound |-> 0, log |-> <<>>]

Init ==
  /\ config = DefaultConfig
  /\ currentCapital = 0
  /\ peakCapital = 0
  /\ trades = <<>>
  /\ openTrades = <<>>
  /\ equityCurve = <<>>
  /\ calls = [c \in CallIds |-> IdleCall]
  /\ runs = 0
  /\ running = 0
  /\ microtasks = <<>>
  /\ pipeline = NewPipeline
  /\ eventBus = NewEventBus

\* ----------------------------------------------------------------- actions
\* runBacktest, lines 115-133: merge the configuration and reset the run state.
\* the reset without `this.trades = []` and `this.equityCurve = []`
ResetRunKeepingLedger(cfg) ==
  [currentCapital |-> cfg.initialCapital, peakCapital |-> cfg.initialCapital,
   trades |-> trades, openTrades |-> <<>>, equityCurve |-> equityCurve]

ResetRun(cfg) ==
  [currentCapital |-> cfg.initialCapital, peakCapital |-> cfg.initialCapital,
   trades |-> <<>>, openTrades |-> <<>>, equityCurve |-> <<>>]

Invoke(c, ov) ==
  /\ running = 0
  /\ config' = MergeConfig(config, ov)
  /\ SetSim(ResetRun(config'))
  /\ runs' = runs + 1
  /\ calls' = [calls EXCEPT ![c] =
       [IdleCall EXCEPT !.pc = "start", !.run = runs + 1, !.config = ov]]
  /\ running' = c
  /\ UNCHANGED <<microtasks, pipeline, eventBus>>

\* The caller awaits each run before it invokes the next one.
StartRun(c) ==
  /\ calls[c].pc \in {"idle", "done"}
  /\ runs < MaxRuns
  /\ \E ov \in Overrides : Invoke(c, ov)

\* The arguments candles and predictions, which runBacktest first reads after
\* the reset (lines 128-137): the model draws them there.
BindInputs(c, cs, ps) ==
  /\ running = c
  /\ calls[c].pc = "start"
  /\ calls' = [calls EXCEPT ![c].pc = "loop", ![c].candles = cs,
                            ![c].predictions = ps]
  /\ UNCHANGED <<config, currentCapital, peakCapital, trades, openTrades,
                 equityCurve, runs, running, microtasks, pipeline, eventBus>>

ReadInputs(c) ==
  /\ calls[c].pc = "start"
  /\ \E cs \in CandleSeries, ps \in PredictionSeries : BindInputs(c, cs, ps)

\* for (i...; i < predictions.length && i < candles.length - 1; ...)
LoopCondition(call) ==
  call.i < Len(call.predictions) /\ call.i < Len(call.candles) - 1

\* this.processExitSignals(currentCandle, nextCandle)
ProcessExits(c) ==
  /\ running = c
  /\ calls[c].pc = "loop"
  /\ LoopCondition(calls[c])
  /\ SetSim(processExitSignals(Sim, At(calls[c].candles, calls[c].i),
                               At(calls[c].candles, calls[c].i + 1), config))
  /\ calls' = [calls EXCEPT ![c].pc = "entry"]
  /\ UNCHANGED <<config, runs, running, microtasks, pipeline, eventBus>>

\* the loop condition fails
LoopExit(c) ==
  /\ running = c
  /\ calls[c].pc = "loop"
  /\ ~LoopCondition(calls[c])
  /\ calls' = [calls EXCEPT ![c].pc = "close"]
  /\ UNCHANGED <<config, currentCapital, peakCapital, trades, openTrades,
                 equityCurve, runs, running, microtasks, pipeline, eventBus>>

\* if (this.shouldEnterTrade(...)) await this.enterTrade(...): enterTrade runs
\* to its end, then the activation is suspended at the await.
Enter(c) ==
  /\ running = c
  /\ calls[c].pc = "entry"
  /\ shouldEnterTrade(Sim, At(calls[c].predictions, calls[c].i),
                      At(calls[c].candles, calls[c].i), config)
  /\ LET s == enterTrade(Sim, <<calls[c].run, calls[c].issued + 1>>,
                         At(calls[c].predictions, calls[c].i),
                         At(calls[c].candles, calls[c].i + 1), config)
     IN /\ SetSim(s)
        /\ calls' = [calls EXCEPT ![c].pc = "await",
                                  ![c].issued = calls[c].issued + 1,
                                  ![c].seen = <<s>>]
  /\ running' = 0
  /\ microtasks' = Append(microtasks, c)
  /\ UNCHANGED <<config, runs, pipeline, eventBus>>

\* shouldEnterTrade is false: this.updateEquityCurve(currentCandle.timestamp)
NoEntry(c) ==
  /\ running = c
  /\ calls[c].pc = "entry"
  /\ ~shouldEnterTrade(Sim, At(calls[c].predictions, calls[c].i),
                       At(calls[c].candles, calls[c].i), config)
  /\ SetSim(updateEquityCurve(Sim, At(calls[c].candles, calls[c].i).timestamp))
  /\ calls' = [calls EXCEPT ![c].pc = "risk"]
  /\ UNCHANGED <<config, runs, running, microtasks, pipeline, eventBus>>

\* The oldest suspended activation continues after its await:
\* this.updateEquityCurve(currentCandle.timestamp)
Resume(c) ==
  /\ running = 0
  /\ microtasks # <<>>
  /\ Head(microtasks) = c
  /\ calls[c].pc = "await"
  /\ calls[c].raised = <<>>
  /\ SetSim(updateEquityCurve(Sim, At(calls[c].candles, calls[c].i).timestamp))
  /\ calls' = [calls EXCEPT ![c].pc = "risk", ![c].seen = <<>>]
  /\ running' = c
  /\ microtasks' = Tail(microtasks)
  /\ UNCHANGED <<config, runs, pipeline, eventBus>>

\* `continue` where the source has `break`
RiskHaltContinuing(c) ==
  /\ running = c
  /\ calls[c].pc = "risk"
  /\ ExceedsMaxDrawdown(Sim, config)
  /\ calls' = [calls EXCEPT ![c].pc = "loop", ![c].i = calls[c].i + 1]
  /\ UNCHANGED <<config, currentCapital, peakCapital, trades, openTrades,
                 equityCurve, runs, running, microtasks, pipeline, eventBus>>

\* if (this.getCurrentDrawdown() > this.config.maxDrawdown) break
RiskHalt(c) ==
  /\ running = c
  /\ calls[c].pc = "risk"
  /\ ExceedsMaxDrawdown(Sim, config)
  /\ calls' = [calls EXCEPT ![c].pc = "close", ![c].halted = TRUE]
  /\ UNCHANGED <<config, currentCapital, peakCapital, trades, openTrades,
                 equityCurve, runs, running, microtasks, pipeline, eventBus>>

\* otherwise i++
NextCandle(c) ==
  /\ running = c
  /\ calls[c].pc = "risk"
  /\ ~ExceedsMaxDrawdown(Sim, config)
  /\ calls' = [calls EXCEPT ![c].pc = "loop", ![c].i = calls[c].i + 1]
  /\ UNCHANGED <<config, currentCapital, peakCapital, trades, openTrades,
                 equityCurve, runs, running, microtasks, pipeline, eventBus>>

\* the candle the loop was at, where the source takes the last one
candleAtLoopIndex(call) == At(call.candles, call.i)

\* const lastCandle = candles[candles.length - 1]
lastCandleOf(call) == call.candles[Len(call.candles)]

\* if (candles.length > 0) this.closeAllTrades(lastCandle);
\* return this.calculateBacktestResults(...)
Finish(c) ==
  /\ running = c
  /\ calls[c].pc = "close"
  /\ LET cs == calls[c].candles
         s == IF Len(cs) > 0 THEN closeAllTrades(Sim, lastCandleOf(calls[c]), config)
                             ELSE Sim
     IN /\ SetSim(s)
        /\ calls' = [calls EXCEPT ![c].pc = "done",
                                  ![c].results = <<calculateBacktestResults(s, config)>>]
  /\ running' = 0
  /\ UNCHANGED <<config, runs, microtasks, pipeline, eventBus>>

\* One caller that awaits every run: the activations never overlap.
Next ==
  \/ StartRun(1)
  \/ ReadInputs(1)
  \/ ProcessExits(1)
  \/ LoopExit(1)
  \/ Enter(1)
  \/ NoEntry(1)
  \/ Resume(1)
  \/ RiskHalt(1)
  \/ NextCandle(1)
  \/ Finish(1)

Spec == Init /\ [][Next]_vars

\* ------------------------------------------------- overlapping invocations
\* runBacktest is async and the exported singleton is shared: a caller may
\* invoke it again while an earlier activation is suspended at its await.
\* Both activations then run on the one instance, each from an await to the
\* next, in the order of the microtask queue.
OverlapBars ==
  { [open |-> 100000, high |-> 100000, low |-> 100000, close |-> 100000],
    [open |-> 100000, high |-> 100000, low |-> 94000, close |-> 94000] }

OverlapCandleSeries == {MkCandles(b, 1) : b \in [1..MaxCandles -> OverlapBars]}

OverlapPredictionSeries ==
  [1..MaxPreds -> {[direction |-> "up", confidence |-> 9000],
                   [direction |-> "up", confidence |-> 5000]}]

OverlapOverrides == { {}, {<<"maxDrawdown", 0>>} }

StartOverlapping(c) ==
  /\ calls[c].pc = "idle"
  /\ c = 1 \/ calls[1].pc # "idle"
  /\ \E ov \in OverlapOverrides : Invoke(c, ov)

ReadInputsOverlapping(c) ==
  /\ calls[c].pc = "start"
  /\ \E cs \in OverlapCandleSeries, ps \in OverlapPredictionSeries : BindInputs(c, cs, ps)

NextOverlap ==
  \E c \in CallIds :
    \/ StartOverlapping(c)
    \/ ReadInputsOverlapping(c)
    \/ ProcessExits(c)
    \/ LoopExit(c)
    \/ Enter(c)
    \/ NoEntry(c)
    \/ Resume(c)
    \/ RiskHalt(c)
    \/ NextCandle(c)
    \/ Finish(c)

SpecOverlap == Init /\ [][NextOverlap]_vars

\* ------------------------------------------------- entries at the thresholds
\* One run on inputs that sit on and next to the thresholds of
\* shouldEnterTrade: a range of exactly 2% of the close and one cent more,
\* confidences at and next to 0.6 and 0.8, a position value of exactly 100.00
\* (positionSize 0.01 of 10000.00), and the limits 1 and 0.
EntryBars ==
  { [open |-> 100000, high |-> 100000, low |-> 100000, close |-> 100000],
    [open |-> 100000, high |-> 101000, low |-> 99000, close |-> 100000],
    [open |-> 100000, high |-> 101001, low |-> 99000, close |-> 100000] }

EntryCandleSeries == {MkCandles(b, 1) : b \in [1..MaxCandles -> EntryBars]}

EntryPredictionSeries ==
  [1..MaxPreds -> {[direction |-> "up", confidence |-> MinConfidence - 1],
                   [direction |-> "up", confidence |-> MinConfidence],
                   [direction |-> "up", confidence |-> VolatileConfidence],
                   [direction |-> "up", confidence |-> VolatileConfidence + 1]}]

EntryOverrides ==
  { {},
    {<<"maxConcurrentTrades", 1>>},
    {<<"positionSize", 100>>},
    {<<"maxDrawdown", 0>>} }

StartEntry(c) ==
  /\ calls[c].pc = "idle"
  /\ \E ov \in EntryOverrides : Invoke(c, ov)

ReadInputsEntry(c) ==
  /\ calls[c].pc = "start"
  /\ \E cs \in EntryCandleSeries, ps \in EntryPredictionSeries : BindInputs(c, cs, ps)

NextEntry ==
  \/ StartEntry(1)
  \/ ReadInputsEntry(1)
  \/ ProcessExits(1)
  \/ LoopExit(1)
  \/ Enter(1)
  \/ NoEntry(1)
  \/ Resume(1)
  \/ RiskHalt(1)
  \/ NextCandle(1)
  \/ Finish(1)

SpecEntry == Init /\ [][NextEntry]_vars

\* ---------------------------------------------------- exits at the thresholds
\* One run long enough for a trade to be evaluated twice: the trade opened on
\* candle 0 is filled at candle 1's open (1000.50 long, 999.50 short) and
\* evaluated on the closes of candles 1 and 2.  The closes sit on and next to
\* the thresholds: -2% of a long (980.49) and one cent above, +4% of a long
\* (1040.52) and one cent below, -2% of a short (1019.49), and +2.95% followed
\* by +0.95%.  Candles are 1, 24 or 25 hours apart.
ExitCloses == {100000, 103000, 101000, 98049, 98050, 104052, 104051, 101949}

ExitBars ==
  { [open |-> 100000, high |-> Max(100000, cl),
     low |-> IF cl < 100000 THEN cl ELSE 100000, close |-> cl] : cl \in ExitCloses }

ExitIntervals == {1, maxDuration, maxDuration + 1}

ExitCandleSeries ==
  { MkCandles(<<[open |-> 100000, high |-> 100000, low |-> 100000,
                 close |-> 100000]>> \o b, iv) :
      b \in [1..MaxCandles -> ExitBars], iv \in ExitIntervals }

ExitPredictionSeries ==
  [1..MaxPreds + 1 -> {[direction |-> "up", confidence |-> 9000],
                       [direction |-> "down", confidence |-> 9000]}]

ExitOverrides == { {}, {<<"maxDrawdown", 0>>}, {<<"maxConcurrentTrades", 1>>} }

StartExits(c) ==
  /\ calls[c].pc = "idle"
  /\ \E ov \in ExitOverrides : Invoke(c, ov)

ReadInputsExits(c) ==
  /\ calls[c].pc = "start"
  /\ \E cs \in ExitCandleSeries, ps \in ExitPredictionSeries : BindInputs(c, cs, ps)

NextExits ==
  \/ StartExits(1)
  \/ ReadInputsExits(1)
  \/ ProcessExits(1)
  \/ LoopExit(1)
  \/ Enter(1)
  \/ NoEntry(1)
  \/ Resume(1)
  \/ RiskHalt(1)
  \/ NextCandle(1)
  \/ Finish(1)

SpecExits == Init /\ [][NextExits]_vars

\* ------------------------------------------------------- runs for the ratios
\* One run whose report has every kind of denominator: no candle at all, or
\* four candles an hour apart with the later closes flat, at the stop loss of
\* a long or at its take profit; predictions the simulator enters on
\* (confidence 0.9) or skips (0.5).  With the default position of 2% the
\* costs of an entry are a drawdown below the fourth decimal, which the
\* fractions of the model round to 0; with a position of 10% they are
\* 0.00015.
ReportCloses == {100000, 98049, 104052}

ReportCandleSeries ==
  { <<>> } \cup
  { MkCandles(<<[open |-> 100000, high |-> 100000, low |-> 100000,
                 close |-> 100000]>> \o
              [k \in 1..MaxCandles |->
                 [open |-> 100000, high |-> Max(100000, cl[k]),
                  low |-> Min(100000, cl[k]), close |-> cl[k]]], 1) :
      cl \in [1..MaxCandles -> ReportCloses] }

ReportPredictionSeries ==
  [1..MaxPreds + 1 -> {[direction |-> "up", confidence |-> 9000],
                       [direction |-> "up", confidence |-> 5000]}]

ReportOverrides == { {}, {<<"maxDrawdown", 0>>}, {<<"positionSize", 1000>>} }

StartReport(c) ==
  /\ calls[c].pc = "idle"
  /\ \E ov \in ReportOverrides : Invoke(c, ov)

ReadInputsReport(c) ==
  /\ calls[c].pc = "start"
  /\ \E cs \in ReportCandleSeries, ps \in ReportPredictionSeries : BindInputs(c, cs, ps)

NextReport ==
  \/ StartReport(1)
  \/ ReadInputsReport(1)
  \/ ProcessExits(1)
  \/ LoopExit(1)
  \/ Enter(1)
  \/ NoEntry(1)
  \/ Resume(1)
  \/ RiskHalt(1)
  \/ NextCandle(1)
  \/ Finish(1)

SpecReport == Init /\ [][NextReport]_vars

\* ------------------------------------------------------------ failing runs
\* Exceptions inside the try block of runBacktest.  Two calls the run makes
\* can raise: SecureRandom.uuid() inside enterTrade, which rejects the promise
\* the loop awaits, and calculateBacktestResults after the remaining trades
\* have been closed (Math.max over a spread of the whole equity curve).
Errors == {"uuid", "results"}

\* catch (error) { secureLogger.error(...) } without `throw error`: the run
\* returns a report of what it has so far
catchBlockReturningReport(call, error, s) ==
  [call EXCEPT !.pc = "done",
               !.logged = <<[error |-> error, tradesProcessed |-> Len(s.trades)]>>,
               !.results = <<calculateBacktestResults(s, config)>>]

\* catch (error) { secureLogger.error('Backtest failed', {error,
\* tradesProcessed: this.trades.length}); throw error; }
catchBlock(call, error, s) ==
  [call EXCEPT !.pc = "failed",
               !.logged = <<[error |-> error, tradesProcessed |-> Len(s.trades)]>>,
               !.thrown = <<error>>]

\* shouldEnterTrade is true and enterTrade raises at SecureRandom.uuid(),
\* before it debits the capital and pushes the trade: the promise it returns
\* is rejected and the activation is suspended at the await.
EnterFails(c) ==
  /\ running = c
  /\ calls[c].pc = "entry"
  /\ shouldEnterTrade(Sim, At(calls[c].predictions, calls[c].i),
                      At(calls[c].candles, calls[c].i), config)
  /\ calls' = [calls EXCEPT ![c].pc = "await", ![c].raised = <<"uuid">>,
                            ![c].seen = <<Sim>>]
  /\ running' = 0
  /\ microtasks' = Append(microtasks, c)
  /\ UNCHANGED <<config, currentCapital, peakCapital, trades, openTrades,
                 equityCurve, runs, pipeline, eventBus>>

\* The await rethrows the rejection inside the try block: the catch block runs.
Rejected(c) ==
  /\ running = 0
  /\ microtasks # <<>>
  /\ Head(microtasks) = c
  /\ calls[c].pc = "await"
  /\ calls[c].raised # <<>>
  /\ calls' = [calls EXCEPT ![c] = catchBlock([calls[c] EXCEPT !.seen = <<>>],
                                              calls[c].raised[1], Sim)]
  /\ microtasks' = Tail(microtasks)
  /\ UNCHANGED <<config, currentCapital, peakCapital, trades, openTrades,
                 equityCurve, runs, running, pipeline, eventBus>>

\* closeAllTrades has run and calculateBacktestResults raises.
FinishFails(c) ==
  /\ running = c
  /\ calls[c].pc = "close"
  /\ LET cs == calls[c].candles
         s == IF Len(cs) > 0 THEN closeAllTrades(Sim, lastCandleOf(calls[c]), config)
                             ELSE Sim
     IN /\ SetSim(s)
        /\ calls' = [calls EXCEPT ![c] =
             catchBlock([calls[c] EXCEPT !.raised = <<"results">>], "results", s)]
  /\ running' = 0
  /\ UNCHANGED <<config, runs, microtasks, pipeline, eventBus>>

FailingOverrides == { {}, {<<"maxDrawdown", 0>>} }

\* The caller invokes the next run after the previous one has returned or
\* thrown.
StartFailing(c) ==
  /\ calls[c].pc \in {"idle", "done", "failed"}
  /\ runs < MaxRuns
  /\ \E ov \in FailingOverrides : Invoke(c, ov)

NextFailing ==
  \/ StartFailing(1)
  \/ ReadInputs(1)
  \/ ProcessExits(1)
  \/ LoopExit(1)
  \/ Enter(1)
  \/ EnterFails(1)
  \/ NoEntry(1)
  \/ Resume(1)
  \/ Rejected(1)
  \/ RiskHalt(1)
  \/ NextCandle(1)
  \/ Finish(1)
  \/ FinishFails(1)

SpecFailing == Init /\ [][NextFailing]_vars

\* ------------------------------------------------------- AdvancedMLPipeline
\* src/services/security/SecurityAuditService.ts, class AdvancedMLPipeline.

\* const lookback = Math.min(20, candles.length)
Lookback == 20
\* if (relevantCandles.length < 3) throw
MinWindow == 3

InsufficientData == "Insufficient data for feature extraction"

\* Array.prototype.slice(start, end) on 0-based indices: a negative bound
\* counts from the end of the array, and a bound past the end is the end.
Slice(q, start, end) ==
  LET n == Len(q)
      from == IF start < 0 THEN Max(n + start, 0) ELSE Min(start, n)
      to == IF end < 0 THEN Max(n + end, 0) ELSE Min(end, n)
  IN IF from >= to THEN <<>> ELSE SubSeq(q, from + 1, to)

\* candles.slice(Math.max(0, currentIndex - lookback), currentIndex + 1)
relevantCandles(candles, currentIndex) ==
  LET lookback == Min(Lookback, Len(candles))
  IN Slice(candles, Max(0, currentIndex - lookback), currentIndex + 1)

\* this.featureCache.set(cacheKey, features): a Map as a set of <<key, value>>
MapSet(map, key, value) == {e \in map : e[1] # key} \cup {<<key, value>>}

\* prices.slice(-n): the last n elements, all of them when there are fewer
LastN(q, n) == Slice(q, 0 - n, Len(q))

\* Math.tanh on a fraction, to three decimals: the odd rational function
\* x (27 + x^2) / (27 + 9 x^2) up to 3 and 1 beyond; 0 exactly at 0.
MathTanh(x) ==
  LET y == Abs(x) \div 10
      y2 == (y * y) \div 1000
      t == IF y >= 3000 THEN Scale
           ELSE Min(Scale, ((y * (27000 + y2)) \div (27000 + 9 * y2)) * 10)
  IN IF x < 0 THEN 0 - t ELSE t

\* Math.log(a / b) for positive a and b, as a fraction: the first term
\* 2 (a - b) / (a + b) of its series; 0 exactly when a = b, and of the sign
\* of a - b.
MathLogOfQuotient(a, b) ==
  IF a >= b THEN Ratio(2 * (a - b), a + b) ELSE 0 - Ratio(2 * (b - a), a + b)

\* calculateSMA, as a fraction of the price unit
calculateSMA(prices, period) ==
  IF Len(prices) < period THEN prices[Len(prices)] * Scale
  ELSE Ratio(SumSeq(LastN(prices, period)), period)

\* calculateRSI, in RSI points (0..100) times Scale.  With G and L the sums
\* of the last `period` gains and losses, 100 - 100 / (1 + G/L) is
\* 100 G / (G + L).
calculateRSI(prices, period) ==
  IF Len(prices) < period + 1 THEN 50 * Scale
  ELSE LET changes == [k \in 1..(Len(prices) - 1) |-> prices[k + 1] - prices[k]]
           gains == [k \in 1..Len(changes) |-> IF changes[k] > 0 THEN changes[k] ELSE 0]
           losses == [k \in 1..Len(changes) |-> IF changes[k] < 0 THEN 0 - changes[k] ELSE 0]
           G == SumSeq(LastN(gains, period))
           L == SumSeq(LastN(losses, period))
       IN IF L = 0 THEN 100 * Scale
          ELSE Ratio(100 * G, G + L)

\* n^2 times the variance of integer values: n * sum(v^2) - sum(v)^2
SquaredSpread(values) ==
  Len(values) * SumSeq([k \in 1..Len(values) |-> values[k] * values[k]])
    - SumSeq(values) * SumSeq(values)

\* calculateBollingerPosition: (currentPrice - sma) / (2 * std) over the last
\* `period` prices.  With S their sum and D their SquaredSpread this is
\* (period * currentPrice - S) / (2 * sqrt(D)); the root is taken to two
\* decimals.
calculateBollingerPosition(prices, period) ==
  IF Len(prices) < period THEN 0
  ELSE LET last == LastN(prices, period)
           D == SquaredSpread(last)
           currentPrice == prices[Len(prices)]
       IN IF D = 0 THEN 0
          ELSE Ratio((period * currentPrice - SumSeq(last)) * 100,
                     2 * MathSqrt(D * Scale))

\* calculateEMA, as a fraction of the price unit; multiplier = 2 / (period + 1)
RECURSIVE emaFrom(_, _, _)
emaFrom(ema, prices, period) ==
  IF prices = <<>> THEN ema
  ELSE emaFrom((Head(prices) * Scale * 2 + ema * (period - 1)) \div (period + 1),
               Tail(prices), period)

calculateEMA(prices, period) ==
  IF Len(prices) = 0 THEN 0
  ELSE emaFrom(prices[1] * Scale, Tail(prices), period)

\* if (prices.length < 26) return 0
MACDMinimum == 26

\* calculateMACDNormalized: (ema12 - ema26) / ema26
calculateMACDNormalized(prices) ==
  IF Len(prices) < MACDMinimum THEN 0
  ELSE LET ema12 == calculateEMA(prices, 12)
           ema26 == calculateEMA(prices, 26)
       IN Ratio(ema12 - ema26, ema26)

\* calculateStochastic, in points (0..100) times Scale
calculateStochastic(highs, lows, closes, period) ==
  IF Len(highs) < period THEN 50 * Scale
  ELSE LET highestHigh == MaxOf(LastN(highs, period))
           lowestLow == MinOf(LastN(lows, period))
           currentClose == closes[Len(closes)]
       IN IF highestHigh = lowestLow THEN 50 * Scale
          ELSE Ratio(100 * (currentClose - lowestLow), highestHigh - lowestLow)

\* calculateTechnicalIndicators: [tanh(smaRatio - 1), rsi, bbPosition,
\* tanh(macd), stochastic, tanh(priceVsSMA * 10)]
calculateTechnicalIndicators(candles) ==
  LET closes == Field(candles, "close")
      highs == Field(candles, "high")
      lows == Field(candles, "low")
      sma5 == calculateSMA(closes, 5)
      sma10 == calculateSMA(closes, 10)
      currentPrice == closes[Len(closes)]
  IN << MathTanh(Ratio(sma5, sma10) - Scale),
        calculateRSI(closes, 14) \div 100,
        calculateBollingerPosition(closes, 20),
        MathTanh(calculateMACDNormalized(closes)),
        calculateStochastic(highs, lows, closes, 14) \div 100,
        MathTanh(10 * Ratio(currentPrice * Scale - sma10, sma10)) >>

\* calculatePriceFeatures, its last component: tanh(50 * momentum), momentum
\* the sum of the last three log returns.  The four statistics before it are
\* read by no method of the pipeline and are held at 0.
calculatePriceFeatures(candles) ==
  LET returns == [k \in 1..(Len(candles) - 1) |->
                    MathLogOfQuotient(candles[k + 1].close, candles[k].close)]
      recentReturns == LastN(returns, 3)
      momentum == IF Len(recentReturns) > 0 THEN SumSeq(recentReturns) ELSE 0
  IN <<0, 0, 0, 0, MathTanh(50 * momentum)>>

\* calculateVolumeFeatures, its first component: tanh(log(volumeRatio)),
\* volumeRatio = currentVolume / volumeMean, or 1 when the mean is 0;
\* log(0) is -Infinity and tanh of it -1.  Trend and correlation are read by
\* no method of the pipeline and are held at 0.
calculateVolumeFeatures(candles) ==
  LET volumes == Field(candles, "volume")
      total == SumSeq(volumes)
      currentVolume == volumes[Len(volumes)]
  IN << IF total = 0 THEN 0
        ELSE IF currentVolume = 0 THEN 0 - Scale
        ELSE MathTanh(MathLogOfQuotient(currentVolume * Len(volumes), total)),
        0, 0 >>

\* if (candles.length < 5) return 0.1
ConfidenceMinimum == 5

\* calculateFeatureConfidence: 0.8, times 0.8 for each i >= 1 whose open is
\* more than 5% away from the close before it, times 0.9 for each i >= 1
\* with volume 0; at least 0.1
RECURSIVE confidenceFrom(_, _, _)
confidenceFrom(confidence, candles, i) ==
  IF i > Len(candles) THEN confidence
  ELSE LET prev == candles[i - 1]
           curr == candles[i]
           c1 == IF Abs(curr.open - prev.close) * 100 > 5 * prev.close
                   THEN Mul(confidence, 8000) ELSE confidence
           c2 == IF curr.volume = 0 THEN Mul(c1, 9000) ELSE c1
       IN confidenceFrom(c2, candles, i + 1)

calculateFeatureConfidence(candles) ==
  IF Len(candles) < ConfidenceMinimum THEN 1000
  ELSE Max(1000, confidenceFrom(8000, candles, 2))

\* extractFeatures on pipeline p: the outcome of the call, the error raised or
\* the vector returned, the window it took from the candles, and
\* the pipeline afterwards.  temporalFeatures, which no method reads, is left
\* out of the vector.
extractFeatures(p, candles, currentIndex) ==
  LET window == relevantCandles(candles, currentIndex)
  IN IF Len(window) < MinWindow
       THEN [outcome |-> "raised", error |-> InsufficientData, value |-> <<>>,
             window |-> window, pipeline |-> p]
       ELSE LET currentCandle == window[Len(window)]
                features == [technicalIndicators |-> calculateTechnicalIndicators(window),
                             priceFeatures |-> calculatePriceFeatures(window),
                             volumeFeatures |-> calculateVolumeFeatures(window),
                             metadata |-> [timestamp |-> currentCandle.timestamp,
                                           candleIndex |-> currentCandle.candle_index,
                                           confidence |-> calculateFeatureConfidence(window)]]
                cacheKey == <<currentIndex, currentCandle.timestamp>>
            IN [outcome |-> "returned", error |-> "", value |-> <<features>>,
                window |-> window,
                pipeline |-> [p EXCEPT !.featureCache =
                                MapSet(p.featureCache, cacheKey, features)]]

\* Candle arrays of quiet candles at price 100 with volume 10.  Candle k of
\* an array has candle_index k and a timestamp that grows with k.
PipelineCandles(n) ==
  [k \in 1..n |-> [open |-> 100, high |-> 100, low |-> 100, close |-> 100,
                   volume |-> 10, timestamp |-> 100 + (k - 1),
                   candle_index |-> k - 1]]

PipelineSeries == {PipelineCandles(n) : n \in 0..MaxWindow}

\* currentIndex: inside the array, past its end and before its start
PipelineIndices == (0 - 3)..(MaxWindow + 2)

\* parseInt(text, 16) on one hexadecimal digit
HexDigits ==
  <<"0", "1", "2", "3", "4", "5", "6", "7", "8", "9", "a", "b", "c", "d", "e", "f">>

HexValue(ch) == (CHOOSE k \in 1..16 : HexDigits[k] = ch) - 1

\* parseInt(seed.slice(0, 8), 16) / 0xffffffff as a fraction.  The first four
\* digits give the quotient to within 1/Scale; the next four change it by
\* less than that.
SeedFraction(seed) ==
  LET hi == HexValue(seed[1]) * 4096 + HexValue(seed[2]) * 256
            + HexValue(seed[3]) * 16 + HexValue(seed[4])
  IN (hi * Scale) \div 65535

\* Seeds as SecureRandom.uuid() returns them, cut after the first dash.
Seeds ==
  { <<"0", "0", "0", "0", "0", "0", "0", "0", "-">>,
    <<"8", "0", "0", "0", "0", "0", "0", "0", "-">>,
    <<"f", "f", "f", "f", "f", "f", "f", "f", "-">> }

\* A FeatureVector with the components the scorer reads: technicalIndicators
\* [1..4] (rsi, bbPosition, macd, stochastic), priceFeatures[4] (momentum),
\* volumeFeatures[0] and metadata.confidence; the other components are 0.
MkFeatures(rsi, bbPosition, macd, stochastic, momentum, volumeRatio, confidence) ==
  [technicalIndicators |-> <<Scale, rsi, bbPosition, macd, stochastic, 0>>,
   priceFeatures |-> <<0, 0, 0, 0, momentum>>,
   volumeFeatures |-> <<volumeRatio, 0, 0>>,
   metadata |-> [confidence |-> confidence]]

\* Feature vectors within the documented ranges, on both sides of every
\* threshold of the scorer.
FeatureInputs ==
  { MkFeatures(rsi, bb, macd, st, mom, vol, conf) :
      rsi \in {2000, 5000, 8000}, bb \in {0 - 9000, 9000},
      macd \in {0 - Scale, 0, Scale}, st \in {1000, 9000},
      mom \in {0 - Scale, Scale}, vol \in {0, Scale}, conf \in {1000, Scale} }

\* Math.max(lo, x): the upper limit dropped
ClampBelowOnly(lo, hi, x) == Max(lo, x)

\* Math.max(lo, Math.min(hi, x))
Clamp(lo, hi, x) == Max(lo, Min(hi, x))

\* the scorer with a bias that depends on whether the model is loaded
generateRuleBasedPredictionReadingModel(features, seed) ==
  [direction |-> IF pipeline.isModelLoaded THEN "up" ELSE "down",
   probability |-> 5000,
   confidence |-> 5000]

\* generateRuleBasedPrediction.  The volume term is added to `confidence`
\* before that variable is assigned its final value, as in the source.
generateRuleBasedPrediction(features, seed) ==
  LET rsi == At(features.technicalIndicators, 1)
      bbPosition == At(features.technicalIndicators, 2)
      macd == At(features.technicalIndicators, 3)
      stochastic == At(features.technicalIndicators, 4)
      momentum == At(features.priceFeatures, 4)
      volumeRatio == At(features.volumeFeatures, 0)
      s1 == (IF rsi < 3000 THEN 3000 ELSE 0) - (IF rsi > 7000 THEN 3000 ELSE 0)
      s2 == s1 + (IF bbPosition < 0 - 8000 THEN 2000 ELSE 0)
               - (IF bbPosition > 8000 THEN 2000 ELSE 0)
      s3 == s2 + Mul(macd, 2500)
      s4 == s3 + (IF stochastic < 2000 THEN 1500 ELSE 0)
               - (IF stochastic > 8000 THEN 1500 ELSE 0)
      s5 == s4 + Mul(momentum, 3000)
      confidence0 == IF Abs(s5) > 1000 THEN Mul(Abs(volumeRatio), 2000) ELSE 0
      randomFactor == Mul(SeedFraction(seed) - 5000, 1000)
      score == s5 + randomFactor
  IN [direction |-> IF score > 0 THEN "up" ELSE "down",
      probability |-> Clamp(5000, 9500, 5000 + Abs(score)),
      confidence |-> Clamp(1000, 9500,
                           5000 + Mul(Abs(score), 5000)
                                + Mul(features.metadata.confidence, 3000))]

\* loadPerformanceMetrics: { ...this.performanceMetrics, ...saved } when
\* something is stored; a failing read is logged and leaves the metrics.
loadPerformanceMetrics(p) ==
  IF p.storage = <<>> THEN p
  ELSE [p EXCEPT !.performanceMetrics = p.storage[1]]

\* initialize(): the model loads (ok) or loading raises; after a load the
\* stored metrics are merged in.
Initialize(ok) ==
  /\ ~pipeline.isModelLoaded
  /\ pipeline' = IF ok THEN loadPerformanceMetrics([pipeline EXCEPT !.isModelLoaded = TRUE])
                 ELSE pipeline
  /\ UNCHANGED <<simVars, eventBus>>

\* reset(): this.featureCache.clear(); this.isModelLoaded = false
ResetPipeline ==
  /\ pipeline.isModelLoaded \/ pipeline.featureCache # {}
  /\ pipeline' = [pipeline EXCEPT !.featureCache = {}, !.isModelLoaded = FALSE]
  /\ UNCHANGED <<simVars, eventBus>>

\* A caller calls extractFeatures(candles, currentIndex).
ExtractFeatures(candles, currentIndex) ==
  /\ pipeline.extractions < MaxCalls
  /\ LET r == extractFeatures(pipeline, candles, currentIndex)
     IN pipeline' = [r.pipeline EXCEPT
          !.extractions = pipeline.extractions + 1,
          !.last = <<[op |-> "extractFeatures", candles |-> Len(candles),
                      currentIndex |-> currentIndex, outcome |-> r.outcome,
                      error |-> r.error, attempts |-> 1, logged |-> "",
                      window |-> r.window, value |-> r.value]>>]
  /\ UNCHANGED <<simVars, eventBus>>

\* generatePrediction(candles, currentIndex) on a loaded pipeline: one call of
\* extractFeatures inside try; the catch block logs and throws what it caught.
\* On success the scorer is applied to the vector with the seed
\* SecureRandom.uuid() returned.
generatePrediction(p, candles, currentIndex, seed) ==
  LET r == extractFeatures(p, candles, currentIndex)
  IN IF r.outcome = "raised"
       THEN [outcome |-> "raised", error |-> r.error, attempts |-> 1,
             logged |-> "Prediction generation failed", value |-> <<>>,
             window |-> r.window, pipeline |-> r.pipeline]
       ELSE LET prediction == generateRuleBasedPrediction(r.value[1], seed)
            IN [outcome |-> "returned", error |-> "", attempts |-> 1,
                logged |-> "Prediction generated",
                value |-> <<[direction |-> prediction.direction,
                             probability |-> prediction.probability,
                             confidence |-> prediction.confidence,
                             features |-> r.value[1],
                             modelVersion |-> "1.0.0"]>>,
                window |-> r.window, pipeline |-> r.pipeline]

GeneratePrediction(candles, currentIndex) ==
  /\ pipeline.isModelLoaded
  /\ pipeline.extractions < MaxCalls
  /\ \E seed \in Seeds :
       LET r == generatePrediction(pipeline, candles, currentIndex, seed)
       IN pipeline' = [r.pipeline EXCEPT
            !.extractions = pipeline.extractions + 1,
            !.last = <<[op |-> "generatePrediction", candles |-> Len(candles),
                        currentIndex |-> currentIndex, outcome |-> r.outcome,
                        error |-> r.error, attempts |-> r.attempts,
                        logged |-> r.logged, window |-> r.window,
                        value |-> r.value]>>]
  /\ UNCHANGED <<simVars, eventBus>>

NextExtract ==
  \/ \E ok \in BOOLEAN : Initialize(ok)
  \/ ResetPipeline
  \/ \E candles \in PipelineSeries, currentIndex \in PipelineIndices :
       ExtractFeatures(candles, currentIndex)
  \/ \E candles \in PipelineSeries, currentIndex \in PipelineIndices :
       GeneratePrediction(candles, currentIndex)

SpecExtract == Init /\ [][NextExtract]_vars

\* ------------------------------------------------ features of long series
\* Candle k (from 1) of a series, by the shape of the series:
\*   flat    every price 100, volume 10
\*   silent  flat, but the first candle has volume 0
\*   rising  closes 101, 102, ..., each candle opening at the close before it
\*   jumpy   opens at 100, closes alternately at 100 and 110, so that every
\*           second open is 9% below the close before it; every third candle
\*           has volume 0
Shapes == {"flat", "silent", "rising", "jumpy"}

ShapedCandle(shape, k) ==
  LET open == IF shape = "rising" THEN 99 + k ELSE 100
      close == IF shape = "rising" THEN 100 + k
               ELSE IF shape = "jumpy" /\ k % 2 = 0 THEN 110
               ELSE 100
      volume == IF shape = "silent" /\ k = 1 THEN 0
                ELSE IF shape = "jumpy" /\ k % 3 = 0 THEN 0
                ELSE 10
  IN [open |-> open, high |-> Max(open, close), low |-> Min(open, close),
      close |-> close, volume |-> volume, timestamp |-> 100 + (k - 1),
      candle_index |-> k - 1]

FeatureSeries ==
  {[k \in 1..n |-> ShapedCandle(shape, k)] : shape \in Shapes, n \in 0..MaxSeries}

FeatureIndices == (0 - 3)..(MaxSeries + 2)

\* The first call on a pipeline is extractFeatures or generatePrediction on a
\* long series.
FirstExtraction ==
  /\ pipeline.extractions = 0
  /\ \E candles \in FeatureSeries, currentIndex \in FeatureIndices :
       ExtractFeatures(candles, currentIndex)

FirstPrediction ==
  /\ pipeline.extractions = 0
  /\ pipeline.isModelLoaded
  /\ \E candles \in FeatureSeries, currentIndex \in FeatureIndices :
       GeneratePrediction(candles, currentIndex)

NextFeatures ==
  \/ \E ok \in BOOLEAN : Initialize(ok)
  \/ ResetPipeline
  \/ FirstExtraction
  \/ FirstPrediction

SpecFeatures == Init /\ [][NextFeatures]_vars

\* The scorer applied to a feature vector and a seed; `repeated` tells that
\* the application before it had the same arguments.
Score(features, seed) ==
  /\ pipeline' = [pipeline EXCEPT !.lastScore =
       <<[features |-> features, seed |-> seed,
          result |-> generateRuleBasedPrediction(features, seed),
          repeated |-> /\ pipeline.lastScore # <<>>
                       /\ pipeline.lastScore[1].features = features
                       /\ pipeline.lastScore[1].seed = seed]>>]
  /\ UNCHANGED <<simVars, eventBus>>

NextScorer ==
  \/ \E ok \in BOOLEAN : Initialize(ok)
  \/ ResetPipeline
  \/ \E features \in FeatureInputs, seed \in Seeds : Score(features, seed)

SpecScorer == Init /\ [][NextScorer]_vars

\* updatePerformanceMetrics with the accuracy computed before the counters
\* are updated
updatePerformanceMetricsStaleAccuracy(p, prediction, actualOutcome) ==
  LET wasCorrect == \/ prediction.direction = "up" /\ actualOutcome
                    \/ prediction.direction = "down" /\ ~actualOutcome
      m == p.performanceMetrics
      accuracy == IF m.totalTrades = 0 THEN 0 ELSE Ratio(m.winRate, m.totalTrades)
      updated == [accuracy |-> accuracy,
                  winRate |-> IF wasCorrect THEN m.winRate + 1 ELSE m.winRate,
                  totalTrades |-> m.totalTrades + 1]
  IN [p EXCEPT !.performanceMetrics = updated,
               !.saving = Append(p.saving, updated)]

\* updatePerformanceMetrics up to its await: totalTrades++, winRate + 1 when
\* the direction matched, accuracy = winRate / totalTrades, then
\* secureStorage.setItem(...) is called with the metrics.
updatePerformanceMetrics(p, prediction, actualOutcome) ==
  LET wasCorrect == \/ prediction.direction = "up" /\ actualOutcome
                    \/ prediction.direction = "down" /\ ~actualOutcome
      m == p.performanceMetrics
      totalTrades == m.totalTrades + 1
      winRate == IF wasCorrect THEN m.winRate + 1 ELSE m.winRate
      updated == [accuracy |-> Ratio(winRate, totalTrades),
                  winRate |-> winRate,
                  totalTrades |-> totalTrades]
  IN [p EXCEPT !.performanceMetrics = updated,
               !.saving = Append(p.saving, updated)]

UpdatePerformanceMetrics(prediction, actualOutcome) ==
  /\ pipeline.updates < MaxUpdates
  /\ LET p == updatePerformanceMetrics(pipeline, prediction, actualOutcome)
     IN pipeline' = [p EXCEPT
          !.updates = pipeline.updates + 1,
          !.matches = IF (prediction.direction = "up") = actualOutcome
                        THEN pipeline.matches + 1 ELSE pipeline.matches]
  /\ UNCHANGED <<simVars, eventBus>>

\* savePerformanceMetrics with the failure of setItem thrown on to the caller
savePerformanceMetricsRaising(p, ok) ==
  [p EXCEPT !.saving = Tail(p.saving),
            !.storage = IF ok THEN <<Head(p.saving)>> ELSE p.storage,
            !.completed = IF ok THEN p.completed + 1 ELSE p.completed,
            !.raised = IF ok THEN p.raised ELSE p.raised + 1]

\* savePerformanceMetrics after the await: setItem has stored the metrics
\* (ok) or has failed, which the catch block logs; the call of
\* updatePerformanceMetrics that waited for it then completes.
savePerformanceMetrics(p, ok) ==
  [p EXCEPT !.saving = Tail(p.saving),
            !.storage = IF ok THEN <<Head(p.saving)>> ELSE p.storage,
            !.completed = p.completed + 1]

SaveSettles(ok) ==
  /\ pipeline.saving # <<>>
  /\ pipeline' = savePerformanceMetrics(pipeline, ok)
  /\ UNCHANGED <<simVars, eventBus>>

NextMetrics ==
  \/ \E direction \in {"up", "down"}, actualOutcome \in BOOLEAN :
       UpdatePerformanceMetrics([direction |-> direction], actualOutcome)
  \/ \E ok \in BOOLEAN : SaveSettles(ok)

SpecMetrics == Init /\ [][NextMetrics]_vars

\* ---------------------------------------------------------- TypeSafeEventBus
\* `handlers` is the Map from event type to the Set of handlers, a function
\* whose domain is the keys of the Map and whose values list the members of a
\* Set in the order of their insertion.
EventTypes == {"session.created", "candle.added"}

Observers == {"a", "b"}

\* private maxHistorySize = 1000
maxHistorySize == 1000

\* observer.handle.bind(observer): a function object that did not exist
\* before, which calls observer.handle when it is called
bind(bus, observer) == [observer |-> observer, id |-> bus.bound + 1]

\* Set.prototype.add: a value equal to none of the members is added last
SetAdd(members, value) ==
  IF value \in Range(members) THEN members ELSE Append(members, value)

\* Set.prototype.delete: the member equal to the value is removed
SetDelete(members, value) == SelectSeq(members, LAMBDA m : m # value)

\* subscribe(eventType, observer), lines 18-32
subscribe(bus, eventType, observer) ==
  LET created == IF eventType \in DOMAIN bus.handlers
                   THEN bus.handlers
                   ELSE bus.handlers @@ (eventType :> <<>>)
      handler == bind(bus, observer)
  IN [bus EXCEPT !.handlers =
                   [created EXCEPT ![eventType] = SetAdd(created[eventType], handler)],
                 !.bound = bus.bound + 1]

\* unsubscribe(eventType, observer), lines 77-95
unsubscribe(bus, eventType, observer) ==
  IF eventType \notin DOMAIN bus.handlers THEN bus
  ELSE LET handler == bind(bus, observer)
           remaining == SetDelete(bus.handlers[eventType], handler)
       IN [bus EXCEPT !.handlers =
                        IF Len(remaining) = 0
                          THEN [t \in DOMAIN bus.handlers \ {eventType} |-> bus.handlers[t]]
                          ELSE [bus.handlers EXCEPT ![eventType] = remaining],
                      !.bound = bus.bound + 1]

\* getSubscriptions(): the size of the Set of every key
getSubscriptions(bus) ==
  [t \in DOMAIN bus.handlers |-> Len(bus.handlers[t])]

\* publish(event), lines 35-75: the event is added to the history, cut to its
\* last maxHistorySize entries, and every handler of event.type is called.
\* Each async callback of the map runs up to its await, so the handlers are
\* all called, in the order of the Set, before publish first suspends; what
\* follows the await changes nothing.  The result is the bus and the
\* observers whose handle was called.
publish(bus, event) ==
  LET stored == [bus EXCEPT !.eventHistory =
                   LastN(Append(bus.eventHistory, event), maxHistorySize)]
  IN IF event.type \notin DOMAIN bus.handlers \/ Len(bus.handlers[event.type]) = 0
       THEN [bus |-> stored, invoked |-> <<>>]
       ELSE [bus |-> stored,
             invoked |-> [k \in 1..Len(bus.handlers[event.type]) |->
                            bus.handlers[event.type][k].observer]]

Logged(bus, op, eventType, observer, invoked) ==
  [bus EXCEPT !.log = Append(bus.log,
     [op |-> op, eventType |-> eventType, observer |-> observer,
      invoked |-> invoked])]

Subscribe ==
  /\ Len(eventBus.log) < MaxOps
  /\ \E t \in EventTypes, o \in Observers :
       eventBus' = Logged(subscribe(eventBus, t, o), "subscribe", t, o, <<>>)
  /\ UNCHANGED <<simVars, pipeline>>

Unsubscribe ==
  /\ Len(eventBus.log) < MaxOps
  /\ \E t \in EventTypes, o \in Observers :
       eventBus' = Logged(unsubscribe(eventBus, t, o), "unsubscribe", t, o, <<>>)
  /\ UNCHANGED <<simVars, pipeline>>

\* EventFactory numbers the events it creates
Publish ==
  /\ Len(eventBus.log) < MaxOps
  /\ \E t \in EventTypes :
       LET r == publish(eventBus, [type |-> t, id |-> Len(eventBus.eventHistory) + 1])
       IN eventBus' = Logged(r.bus, "publish", t, "", r.invoked)
  /\ UNCHANGED <<simVars, pipeline>>

NextBus ==
  \/ Subscribe
  \/ Unsubscribe
  \/ Publish

SpecBus == Init /\ [][NextBus]_vars

\* ------------------------------------------------------------------ claims
Ids(q) == {q[k].id : k \in 1..Len(q)}

\* the identifiers SecureRandom.uuid() has returned to an activation
IssuedIds(call) == {<<call.run, n>> : n \in 1..call.issued}

\* C1.  Trade lifecycle, for runs that do not overlap.  In every state no
\* trade is in both openTrades and the closed ledger, no trade occurs twice,
\* the open ones have status 'open' and the ledger's have status 'closed';
\* once runBacktest has returned, openTrades is empty and the ledger holds
\* every trade the run opened, exactly once.  A trade in the ledger stays
\* there, unchanged, for the rest of the run: it never goes back to 'open'.
C1_LedgerState ==
  /\ Ids(openTrades) \cap Ids(trades) = {}
  /\ Cardinality(Ids(openTrades)) = Len(openTrades)
  /\ Cardinality(Ids(trades)) = Len(trades)
  /\ \A t \in Range(openTrades) : t.status = "open"
  /\ \A t \in Range(trades) : t.status = "closed"
  /\ \A c \in CallIds :
       /\ calls[c].pc \notin {"idle", "start", "done"} =>
            Ids(openTrades) \cup Ids(trades) = IssuedIds(calls[c])
       /\ calls[c].pc = "done" =>
            /\ openTrades = <<>>
            /\ Ids(trades) = IssuedIds(calls[c])
            /\ Len(trades) = calls[c].issued

C1_ClosedStaysClosed ==
  \A c \in CallIds :
    (calls[c].pc # "idle" /\ calls'[c].run = calls[c].run) =>
      /\ Len(trades') >= Len(trades)
      /\ SubSeq(trades', 1, Len(trades)) = trades
      /\ Ids(openTrades') \cap Ids(trades) = {}

C1_TradeLifecycle == [](C1_LedgerState) /\ [][C1_ClosedStaysClosed]_vars

\* C1's case: a second run on the instance has returned with two trades in
\* its ledger, one of them closed by an exit rule before the last equity point.
C1_Witness ==
  /\ calls[1].pc = "done"
  /\ calls[1].run = 2
  /\ calls[1].issued = 2
  /\ Len(trades) = 2
  /\ equityCurve[Len(equityCurve)].equity > config.initialCapital

\* C2.  Capital conservation as the specification states it: a run that did
\* not hit the drawdown halt ends with finalCapital = initialCapital +
\* sum(pnl) - sum(commission) - sum(slippage) over the closed trades, up to
\* the rounding of the fills (less than ten cents a trade).
C2_CapitalConserved ==
  \A c \in CallIds :
    (calls[c].pc = "done" /\ ~calls[c].halted) =>
      LET r == calls[c].results[1]
      IN Abs(r.finalCapital - (r.config.initialCapital + r.totalPnL
                               - r.totalCommissions - r.totalSlippage))
           <= 10 * r.totalTrades

\* C3.  No interference between invocations: while an activation is suspended
\* at its await, currentCapital, peakCapital, trades, openTrades and
\* equityCurve stay as that activation left them.
C3_NoInterference ==
  \A c \in CallIds : calls[c].pc = "await" => calls[c].seen = <<Sim>>

\* C4.  The configuration in effect during a run is the default configuration
\* overridden by the fields passed to that run, and by nothing else.
C4_ConfigIsDefaultsPlusArgument ==
  \A c \in CallIds :
    calls[c].pc # "idle" => config = MergeConfig(DefaultConfig, calls[c].config)

\* C5.  Reset per invocation.  When a run reaches its loop for the first time,
\* currentCapital and peakCapital equal the initialCapital in effect and
\* trades, openTrades and equityCurve are empty; the report it returns holds
\* only trades this run opened and one equity point per candle this run
\* processed.
C5_ResetPerRun ==
  \A c \in CallIds :
    /\ (calls[c].pc = "start" \/ (calls[c].pc = "loop" /\ calls[c].i = 0)) =>
         /\ currentCapital = config.initialCapital
         /\ peakCapital = config.initialCapital
         /\ trades = <<>>
         /\ openTrades = <<>>
         /\ equityCurve = <<>>
    /\ calls[c].pc = "done" =>
         LET r == calls[c].results[1]
             processed == IF calls[c].halted THEN calls[c].i + 1 ELSE calls[c].i
         IN /\ Ids(r.trades) = IssuedIds(calls[c])
            /\ Len(r.equityCurve) = processed

\* C5's case: the second run on an instance has returned a report with a
\* trade and an equity point.
C5_Witness ==
  /\ calls[1].pc = "done"
  /\ calls[1].run = 2
  /\ Len(calls[1].results[1].trades) >= 1
  /\ Len(calls[1].results[1].equityCurve) >= 1

\* candle.close less (long) or plus (short) its slippage, at the
\* configuration in effect
ExpectedExitPrice(candle, direction) ==
  IF direction = "long"
    THEN candle.close - (candle.close * config.slippage) \div Scale
    ELSE candle.close + (candle.close * config.slippage) \div Scale

\* every open trade is in the next state's ledger, closed on `candle`
ForceClosedOn(candle) ==
  \A t \in Range(openTrades) :
    \E u \in Range(trades') :
      /\ u.id = t.id
      /\ u.status = "closed"
      /\ u.exitTime = candle.timestamp
      /\ u.exitPrice = ExpectedExitPrice(candle, t.direction)

\* C6.  Drawdown halt.  When the drawdown from peakCapital exceeds
\* maxDrawdown after a candle has been processed, the run leaves its loop;
\* from then on the run processes no candle: the loop index stays, no trade
\* is opened and no equity point is appended.
C6_HaltsWhenExceeded ==
  \A c \in CallIds :
    (/\ calls[c].pc = "risk"
     /\ FracGT(peakCapital - currentCapital, peakCapital, config.maxDrawdown)) =>
      (calls'[c].halted /\ calls'[c].pc = "close")

C6_HaltIsFinal ==
  \A c \in CallIds :
    (calls[c].halted /\ calls'[c].run = calls[c].run) =>
      /\ calls'[c].pc \in {"close", "done"}
      /\ calls'[c].i = calls[c].i
      /\ calls'[c].issued = calls[c].issued
      /\ equityCurve' = equityCurve

C6_DrawdownHalt == [][C6_HaltsWhenExceeded /\ C6_HaltIsFinal]_vars

\* C6's case: a run has returned after a halt that left candles and
\* predictions unprocessed.
C6_Witness ==
  /\ calls[1].pc = "done"
  /\ calls[1].halted
  /\ calls[1].i + 1 < Len(calls[1].candles) - 1
  /\ calls[1].i + 1 < Len(calls[1].predictions)

\* C7 as claimed.  After a drawdown halt while processing candle i, every
\* trade still open is closed on candle i: exitTime and exit price are that
\* candle's.
C7_ClosedOnHaltCandle ==
  [][\A c \in CallIds :
       (calls[c].pc = "close" /\ calls[c].halted /\ calls'[c].pc = "done") =>
         ForceClosedOn(At(calls[c].candles, calls[c].i))]_vars

\* C7 as amended.  After a drawdown halt, every trade still open is closed on
\* the last candle of the series: exitTime and exit price are that candle's.
C7_ClosedOnLastCandle ==
  [][\A c \in CallIds :
       (calls[c].pc = "close" /\ calls[c].halted /\ calls'[c].pc = "done") =>
         ForceClosedOn(calls[c].candles[Len(calls[c].candles)])]_vars

\* C7's case: a run halted before its last-but-one candle has returned, and a
\* trade in its ledger was closed at the last candle's timestamp, which no
\* exit rule of the processed candles could give it.
C7_Witness ==
  /\ calls[1].pc = "done"
  /\ calls[1].halted
  /\ calls[1].i + 2 < Len(calls[1].candles)
  /\ \E t \in Range(trades) :
       t.exitTime = calls[1].candles[Len(calls[1].candles)].timestamp

\* C8.  At the end of a run whose loop ran out of candles or predictions,
\* every trade still open is closed with the last candle's timestamp as
\* exitTime and the last candle's close, adjusted by slippage against the
\* trader, as exit price.
C8_ClosedOnLastCandleAtEnd ==
  [][\A c \in CallIds :
       (calls[c].pc = "close" /\ ~calls[c].halted /\ calls'[c].pc = "done") =>
         ForceClosedOn(calls[c].candles[Len(calls[c].candles)])]_vars

\* C8's case: the predictions ran out two candles before the end, and the
\* trade opened on the first candle was closed when the run returned.
C8_Witness ==
  /\ calls[1].pc = "done"
  /\ ~calls[1].halted
  /\ Len(calls[1].predictions) = 1
  /\ Len(calls[1].candles) = 3
  /\ Len(trades) = 1
  /\ trades[1].exitTime = calls[1].candles[3].timestamp

\* C9.  The number of open trades never exceeds maxConcurrentTrades.
C9_OpenTradesBounded == Len(openTrades) <= config.maxConcurrentTrades

\* C9's case: the limit is reached when a confident prediction arrives on a
\* quiet candle.
C9_Witness ==
  /\ calls[1].pc = "entry"
  /\ Len(openTrades) = config.maxConcurrentTrades
  /\ At(calls[1].predictions, calls[1].i).confidence > VolatileConfidence
  /\ ~isMarketVolatile(At(calls[1].candles, calls[1].i))

\* C10.  Every equity point has a drawdown between 0 and 1; peakCapital is
\* never below currentCapital and currentCapital is never negative.
C10_DrawdownInUnitInterval ==
  /\ \A k \in 1..Len(equityCurve) :
       equityCurve[k].drawdown >= 0 /\ equityCurve[k].drawdown <= Scale
  /\ peakCapital >= currentCapital
  /\ currentCapital >= 0

\* C11.  Equity curve, for runs that do not overlap.  While a run is in its
\* loop the curve holds one point for each candle processed so far, in candle
\* order, the k-th point carrying the k-th candle's timestamp; when the run
\* has returned its length is the number of candles processed.  A step of the
\* run appends at most one point and leaves the earlier points as they were.
C11_OnePointPerCandle ==
  \A c \in CallIds :
    LET call == calls[c]
        processed == IF call.pc \in {"loop", "entry", "await"} THEN call.i
                     ELSE IF call.pc = "risk" THEN call.i + 1
                     ELSE IF call.halted THEN call.i + 1 ELSE call.i
    IN call.pc \in {"loop", "entry", "await", "risk", "close", "done"} =>
         /\ Len(equityCurve) = processed
         /\ \A k \in 1..Len(equityCurve) :
              equityCurve[k].timestamp = call.candles[k].timestamp

C11_AppendOnly ==
  \A c \in CallIds :
    (calls[c].pc \notin {"idle", "start"} /\ calls'[c].run = calls[c].run) =>
      /\ Len(equityCurve') \in {Len(equityCurve), Len(equityCurve) + 1}
      /\ SubSeq(equityCurve', 1, Len(equityCurve)) = equityCurve

C11_EquityCurve == [](C11_OnePointPerCandle) /\ [][C11_AppendOnly]_vars

\* C11's case: a run that processed two candles has returned, and its two
\* points differ in equity.
C11_Witness ==
  /\ calls[1].pc = "done"
  /\ calls[1].i = 2
  /\ Len(equityCurve) = 2
  /\ equityCurve[1].equity # equityCurve[2].equity

\* C17.  Entry conditions.  A step that opens a trade starts in a state where
\* the prediction's confidence is at least 0.6, fewer than maxConcurrentTrades
\* trades are open, currentCapital * positionSize is at least 100.00 and, if
\* (high - low) / close of the candle exceeds 0.02, the confidence exceeds
\* 0.8.  At most one trade is opened per processed candle.
C17_OnlyWhenAllowed ==
  \A c \in CallIds :
    (calls'[c].run = calls[c].run /\ calls'[c].issued # calls[c].issued) =>
      LET prediction == At(calls[c].predictions, calls[c].i)
          candle == At(calls[c].candles, calls[c].i)
      IN /\ calls[c].pc = "entry"
         /\ calls'[c].issued = calls[c].issued + 1
         /\ Len(openTrades') = Len(openTrades) + 1
         /\ prediction.confidence >= 6000
         /\ Len(openTrades) < config.maxConcurrentTrades
         /\ Mul(currentCapital, config.positionSize) >= 100 * 100
         /\ (candle.high - candle.low) * Scale > 200 * candle.close =>
              prediction.confidence > 8000

C17_AtMostOnePerCandle ==
  \A c \in CallIds :
    /\ calls[c].pc \in {"loop", "entry"} => calls[c].issued <= calls[c].i
    /\ calls[c].pc \in {"await", "risk", "close", "done"} =>
         calls[c].issued <= calls[c].i + 1

C17_EntryConditions ==
  [](C17_AtMostOnePerCandle) /\ [][C17_OnlyWhenAllowed]_vars

\* C17's case: a trade has just been opened on a candle whose range is over
\* 2% of its close, with a position value of exactly 100.00.
C17_Witness ==
  /\ calls[1].pc = "await"
  /\ LET candle == At(calls[1].candles, calls[1].i)
     IN (candle.high - candle.low) * Scale > 200 * candle.close
  /\ config.positionSize = 100
  /\ Len(openTrades) = 1
  /\ openTrades[1].quantity > 0

\* C18.  No trade is opened in a state whose drawdown is not strictly below
\* 0.8 * maxDrawdown: a step that opens a trade starts with
\* (peakCapital - currentCapital) / peakCapital < 0.8 * maxDrawdown.
C18_NoEntryAtThreshold ==
  [][\A c \in CallIds :
       (calls'[c].run = calls[c].run /\ calls'[c].issued # calls[c].issued) =>
         ~FracGE(10 * (peakCapital - currentCapital), peakCapital,
                 8 * config.maxDrawdown)]_vars

\* the price change of `trade` at `candle`, in cents, favourable when positive
FavourableChange(trade, candle) ==
  IF trade.direction = "long" THEN candle.close - trade.entryPrice
                              ELSE trade.entryPrice - candle.close

\* C19.  Exit rules.  In the exit evaluation at candle i an open trade is
\* closed if and only if candle i's timestamp is more than 24 hours after its
\* entryTime, or its price change relative to entry at candle i's close
\* (sign flipped for a short) is <= -0.02 or >= 0.04; every other open trade
\* is still open afterwards, unchanged.
C19_ExitRules ==
  [][\A c \in CallIds :
       (calls[c].pc = "loop" /\ calls'[c].pc = "entry") =>
         \A t \in Range(openTrades) :
           LET candle == At(calls[c].candles, calls[c].i)
               change == FavourableChange(t, candle)
               due == \/ candle.timestamp - t.entryTime > 24
                      \/ change * 100 <= (0 - 2) * t.entryPrice
                      \/ change * 100 >= 4 * t.entryPrice
           IN IF due
                THEN /\ t.id \notin Ids(openTrades')
                     /\ \E u \in Range(trades') : u.id = t.id /\ u.status = "closed"
                ELSE t \in Range(openTrades')]_vars

\* C19's case: the evaluation at candle 2 has closed a trade whose price
\* change was inside both thresholds (time limit), and left another trade
\* open.
C19_Witness ==
  /\ calls[1].pc = "entry"
  /\ calls[1].i = 2
  /\ openTrades # <<>>
  /\ \E t \in Range(trades) :
       LET candle == At(calls[1].candles, 2)
           change == FavourableChange(t, candle)
       IN /\ t.exitTime = At(calls[1].candles, 3).timestamp
          /\ candle.timestamp - t.entryTime > 24
          /\ change * 100 > (0 - 2) * t.entryPrice
          /\ change * 100 < 4 * t.entryPrice

\* C20.  Trailing stop.  When, at an earlier exit evaluation of a trade, its
\* favourable price change exceeded 0.01, and at the evaluation at candle i
\* its change is below 50% of the highest change seen at those earlier
\* evaluations, the evaluation at candle i closes the trade.
C20_TrailingStop ==
  [][\A c \in CallIds :
       (calls[c].pc = "loop" /\ calls'[c].pc = "entry") =>
         \A t \in Range(openTrades) :
           LET cs == calls[c].candles
               earlier == {j \in 0..(calls[c].i - 1) : At(cs, j).timestamp >= t.entryTime}
               now == FavourableChange(t, At(cs, calls[c].i))
           IN (\E j \in earlier :
                 /\ FavourableChange(t, At(cs, j)) * 100 > t.entryPrice
                 /\ 2 * now < FavourableChange(t, At(cs, j))) =>
                t.id \notin Ids(openTrades')]_vars

\* C12.  A run in which a step has raised an exception never returns a
\* report: its next step is the catch block, which logs the exception with
\* this.trades.length as the number of trades processed and throws the same
\* exception to the caller.
C12_FailedRun ==
  \A c \in CallIds :
    /\ calls[c].raised # <<>> =>
         /\ calls[c].pc \in {"await", "failed"}
         /\ calls[c].results = <<>>
    /\ calls[c].pc = "failed" =>
         /\ calls[c].raised # <<>>
         /\ calls[c].thrown = calls[c].raised
         /\ calls[c].logged =
              <<[error |-> calls[c].raised[1], tradesProcessed |-> Len(trades)]>>
    /\ calls[c].pc = "done" =>
         /\ calls[c].raised = <<>>
         /\ calls[c].thrown = <<>>
         /\ calls[c].results # <<>>

C12_CatchIsNext ==
  \A c \in CallIds :
    (calls[c].pc = "await" /\ calls[c].raised # <<>> /\ calls'[c] # calls[c]) =>
      calls'[c].pc = "failed"

C12_ExceptionPropagates == [](C12_FailedRun) /\ [][C12_CatchIsNext]_vars

\* C12's case: the second run on the instance failed at the await, after it
\* had closed the one trade it had opened.
C12_Witness ==
  /\ calls[1].pc = "failed"
  /\ calls[1].run = 2
  /\ calls[1].raised = <<"uuid">>
  /\ calls[1].logged[1].tradesProcessed = 1
  /\ openTrades = <<>>


\* The candles of an array of n candles that lie in the lookback window ending
\* at currentIndex, the window taken as widely as the source takes it: the
\* positions currentIndex - min(20, n) to currentIndex.
CandlesInWindow(n, currentIndex) ==
  {j \in 0..(n - 1) : currentIndex - Min(Lookback, n) <= j /\ j <= currentIndex}

\* C13: extractFeatures(candles, currentIndex), called directly or through
\* generatePrediction, raises the insufficient-data error exactly when the
\* lookback window ending at currentIndex contains fewer than 3 candles, and
\* a call that raised made one attempt and raised that error.
C13_InsufficientData ==
  pipeline.last # <<>> =>
    LET call == pipeline.last[1]
    IN /\ (call.outcome = "raised")
            <=> (Cardinality(CandlesInWindow(call.candles, call.currentIndex)) < MinWindow)
       /\ call.outcome = "raised" => call.error = InsufficientData /\ call.attempts = 1

\* C13, for a currentIndex that is not negative: the error is raised exactly
\* when the window holds fewer than 3 candles.
C13_FromIndexZero ==
  pipeline.last # <<>> /\ pipeline.last[1].currentIndex >= 0 =>
    LET call == pipeline.last[1]
    IN /\ (call.outcome = "raised")
            <=> (Cardinality(CandlesInWindow(call.candles, call.currentIndex)) < MinWindow)
       /\ call.outcome = "raised" => call.error = InsufficientData /\ call.attempts = 1

\* C13: a call that raised cached nothing.
C13_NothingCached ==
  [][pipeline'.last # pipeline.last /\ pipeline'.last[1].outcome = "raised"
       => pipeline'.featureCache = pipeline.featureCache]_vars

\* C14: for every feature vector with components in their documented ranges
\* and every seed that starts with 8 hexadecimal digits, the rule-based scorer
\* returns a probability in [0.5, 0.95] and a confidence in [0.1, 0.95].
C14_ScorerRanges ==
  pipeline.lastScore # <<>> =>
    LET result == pipeline.lastScore[1].result
    IN /\ 5000 <= result.probability /\ result.probability <= 9500
       /\ 1000 <= result.confidence /\ result.confidence <= 9500

\* the scorer was applied to a vector with a Bollinger position below -0.8
\* whose score puts both results at their upper limit of 0.95
C14_Witness ==
  /\ pipeline.lastScore # <<>>
  /\ pipeline.lastScore[1].result.probability = 9500
  /\ pipeline.lastScore[1].result.confidence = 9500
  /\ pipeline.lastScore[1].features.technicalIndicators[3] = 0 - 9000

\* C15: two applications of the scorer to the same feature vector and the
\* same seed return the same direction, probability and confidence, whatever
\* happened to the pipeline in between.
C15_SameArgumentsSameResult ==
  [][pipeline.lastScore # <<>> /\ pipeline'.lastScore # <<>>
       /\ pipeline'.lastScore[1].features = pipeline.lastScore[1].features
       /\ pipeline'.lastScore[1].seed = pipeline.lastScore[1].seed
     => pipeline'.lastScore[1].result = pipeline.lastScore[1].result]_vars

\* C15: an application of the scorer writes nothing of the pipeline or the
\* simulator.
C15_WritesNothing ==
  [][pipeline'.lastScore # pipeline.lastScore
     => /\ pipeline' = [pipeline EXCEPT !.lastScore = pipeline'.lastScore]
        /\ UNCHANGED simVars]_vars

C16_Counters ==
  /\ pipeline.performanceMetrics.totalTrades = pipeline.updates
  /\ pipeline.performanceMetrics.winRate = pipeline.matches
  /\ pipeline.updates > 0 =>
       pipeline.performanceMetrics.accuracy = Ratio(pipeline.matches, pipeline.updates)
  /\ pipeline.raised = 0
  /\ pipeline.completed + Len(pipeline.saving) = pipeline.updates

\* C16: when a save settles, stored or failed, the call that waited for it
\* completes without raising and the counters in memory stay as updated.
C16_SaveKeepsUpdate ==
  [][Len(pipeline'.saving) < Len(pipeline.saving)
     => /\ pipeline'.completed = pipeline.completed + 1
        /\ pipeline'.raised = pipeline.raised
        /\ pipeline'.performanceMetrics = pipeline.performanceMetrics]_vars

C16_RunningAccuracy == []C16_Counters /\ C16_SaveKeepsUpdate

\* three calls, two of them with a matching direction, have all completed
\* although every save failed
C16_Witness ==
  /\ pipeline.updates = 3
  /\ pipeline.matches = 2
  /\ pipeline.completed = 3
  /\ pipeline.storage = <<>>
  /\ pipeline.performanceMetrics.accuracy = 6666

\* candle.open plus (long) or less (short) its slippage, at the
\* configuration in effect
ExpectedEntryPrice(candle, direction) ==
  IF direction = "long"
    THEN candle.open + (candle.open * config.slippage) \div Scale
    ELSE candle.open - (candle.open * config.slippage) \div Scale

\* the trades of the next state's ledger that this state's ledger lacks
NewlyClosed == {u \in Range(trades') : u.id \notin {t.id : t \in Range(trades)}}

\* C21: a trade opened while candle i is processed has candle i+1's
\* timestamp as entryTime and an entry price derived from candle i+1's open.
C21_EntryOnNextCandle ==
  [][\A c \in CallIds :
       (calls[c].pc = "entry" /\ calls'[c].pc = "await"
        /\ Len(openTrades') > Len(openTrades)) =>
         LET t == openTrades'[Len(openTrades')]
             next == At(calls[c].candles, calls[c].i + 1)
         IN /\ t.entryTime = next.timestamp
            /\ t.entryPrice = ExpectedEntryPrice(next, t.direction)]_vars

\* C21: a trade closed by an exit rule while candle i is processed has candle
\* i+1's timestamp as exitTime and an exit price derived from candle i+1's
\* close.
C21_ExitOnNextCandle ==
  [][\A c \in CallIds :
       (calls[c].pc = "loop" /\ calls'[c].pc = "entry") =>
         \A u \in NewlyClosed :
           LET next == At(calls[c].candles, calls[c].i + 1)
           IN /\ u.exitTime = next.timestamp
              /\ u.exitPrice = ExpectedExitPrice(next, u.direction)]_vars

\* C21: every closed trade has exitTime >= entryTime (candle timestamps do
\* not decrease in any series of the model).
C21_ExitNotBeforeEntry ==
  \A t \in Range(trades) : t.status = "closed" => t.exitTime >= t.entryTime

C21_FillsLookAhead ==
  /\ C21_EntryOnNextCandle
  /\ C21_ExitOnNextCandle
  /\ []C21_ExitNotBeforeEntry

\* a trade opened while candle 0 was processed and filled on candle 1 was
\* closed by an exit rule while candle 1 was processed, and filled on candle
\* 2, which is not the last candle of the series
C21_Witness ==
  /\ calls[1].pc = "entry"
  /\ calls[1].i = 1
  /\ Len(calls[1].candles) = 4
  /\ Len(trades) = 1
  /\ trades[1].entryTime = calls[1].candles[2].timestamp
  /\ trades[1].exitTime = calls[1].candles[3].timestamp
  /\ trades[1].exitTime > trades[1].entryTime

\* an exit rule asks for `trade` to be closed at `candle`
ExitDue(trade, candle) ==
  LET change == FavourableChange(trade, candle)
  IN \/ candle.timestamp - trade.entryTime > 24
     \/ change * 100 <= (0 - 2) * trade.entryPrice
     \/ change * 100 >= 4 * trade.entryPrice

\* C22: when the entry of candle i is decided, the exit evaluation of candle
\* i is complete: no trade that an exit rule closes at candle i is open.
C22_ExitsBeforeEntry ==
  \A c \in CallIds :
    calls[c].pc = "entry" =>
      \A t \in Range(openTrades) : ~ExitDue(t, At(calls[c].candles, calls[c].i))

\* C22: the trades closed by one exit evaluation are appended to the ledger
\* in the order in which they were opened, which is the order of their
\* identifiers' issue numbers.
C22_ClosedInOpeningOrder ==
  [][\A c \in CallIds :
       (calls[c].pc = "loop" /\ calls'[c].pc = "entry") =>
         /\ Len(trades') >= Len(trades)
         /\ SubSeq(trades', 1, Len(trades)) = trades
         /\ \A j, k \in (Len(trades) + 1)..Len(trades') :
              j < k => trades'[j].id[2] < trades'[k].id[2]]_vars

C22_ExitThenEntry == []C22_ExitsBeforeEntry /\ C22_ClosedInOpeningOrder

\* with one slot, the trade that held it was closed by the exit evaluation of
\* candle 1 and another trade was opened on the same candle
C22_Witness ==
  /\ config.maxConcurrentTrades = 1
  /\ calls[1].pc = "await"
  /\ calls[1].i = 1
  /\ Len(trades) = 1
  /\ Len(openTrades) = 1
  /\ trades[1].exitTime = At(calls[1].candles, 2).timestamp
  /\ openTrades[1].entryTime = At(calls[1].candles, 2).timestamp

\* C23: two consecutive applications of the scorer, with the same seed, to
\* feature vectors that differ in the volume-ratio feature only, both with an
\* absolute score above 0.1 (a probability above 0.65 leaves no doubt, the
\* seed's term being at most 0.05) and a confidence strictly inside its
\* limits, return different confidence values.
C23_VolumeConfirmation ==
  [][(/\ pipeline.lastScore # <<>>
      /\ pipeline'.lastScore # <<>>
      /\ pipeline'.lastScore # pipeline.lastScore
      /\ LET a == pipeline.lastScore[1]
             b == pipeline'.lastScore[1]
         IN /\ a.seed = b.seed
            /\ Abs(a.features.volumeFeatures[1]) # Abs(b.features.volumeFeatures[1])
            /\ [a.features EXCEPT !.volumeFeatures = b.features.volumeFeatures] = b.features
            /\ a.result.probability > 6500 /\ b.result.probability > 6500
            /\ a.result.confidence > 1000 /\ a.result.confidence < 9500
            /\ b.result.confidence > 1000 /\ b.result.confidence < 9500)
     => pipeline'.lastScore[1].result.confidence # pipeline.lastScore[1].result.confidence]_vars

\* the feature vector a call returned: extractFeatures returns it, and
\* generatePrediction returns it inside the prediction
ReturnedFeatures(call) ==
  IF call.op = "extractFeatures" THEN call.value[1] ELSE call.value[1].features

\* every open, high, low and close of the window is the same price and every
\* volume the same positive number
ConstantWindow(window) ==
  \A j \in 1..Len(window) :
    /\ window[j].open = window[1].open
    /\ window[j].high = window[1].open
    /\ window[j].low = window[1].open
    /\ window[j].close = window[1].open
    /\ window[j].volume = window[1].volume
    /\ window[j].volume > 0

\* C24: a prediction generated from a constant-price window has a score made
\* of the seed's term only: |score| <= 0.05, so that the probability, which
\* is 0.5 + |score|, is at most 0.55.
C24_ConstantWindowScore ==
  pipeline.last # <<>> =>
    LET call == pipeline.last[1]
    IN (/\ call.op = "generatePrediction"
        /\ call.outcome = "returned"
        /\ ConstantWindow(call.window))
       => call.value[1].probability <= 5500

\* C24, for windows of fewer than 15 candles
C24_ShortConstantWindowScore ==
  pipeline.last # <<>> =>
    LET call == pipeline.last[1]
    IN (/\ call.op = "generatePrediction"
        /\ call.outcome = "returned"
        /\ ConstantWindow(call.window)
        /\ Len(call.window) < 15)
       => call.value[1].probability <= 5500

\* C25: for a currentIndex within the array, the window ends at the candle
\* at currentIndex and holds at most min(20, candles.length) candles.
C25_WindowSize ==
  pipeline.last # <<>> =>
    LET call == pipeline.last[1]
    IN (0 <= call.currentIndex /\ call.currentIndex < call.candles) =>
         /\ Len(call.window) >= 1
         /\ call.window[Len(call.window)].candle_index = call.currentIndex
         /\ Len(call.window) <= Min(20, call.candles)

\* C25 with one candle more: the window ends at the candle at currentIndex
\* and holds at most min(20, candles.length) + 1 candles.
C25_WindowSizePlusOne ==
  pipeline.last # <<>> =>
    LET call == pipeline.last[1]
    IN (0 <= call.currentIndex /\ call.currentIndex < call.candles) =>
         /\ Len(call.window) >= 1
         /\ call.window[Len(call.window)].candle_index = call.currentIndex
         /\ Len(call.window) <= Min(20, call.candles) + 1

\* the pairs of consecutive candles of the window with a gap above 5%, by the
\* position of the later candle
GapPairs(window) ==
  {j \in 2..Len(window) :
     Abs(window[j].open - window[j - 1].close) * 100 > 5 * window[j - 1].close}

\* the zero-volume candles of the window, the first candle included
ZeroVolumeCandles(window) == {j \in 1..Len(window) : window[j].volume = 0}

\* x times 0.8^g times 0.9^z as a fraction, each product rounded down
RECURSIVE Discounted(_, _, _)
Discounted(x, g, z) ==
  IF g > 0 THEN Discounted(Mul(x, 8000), g - 1, z)
  ELSE IF z > 0 THEN Discounted(Mul(x, 9000), g, z - 1)
  ELSE x

\* C26: for every window accepted by extractFeatures, metadata.confidence is
\* max(0.1, 0.8 * 0.8^g * 0.9^z), g the number of gaps above 5% between
\* consecutive candles of the window and z the number of its zero-volume
\* candles (equal up to the rounding of the g + z products).
C26_FeatureConfidence ==
  pipeline.last # <<>> /\ pipeline.last[1].outcome = "returned" =>
    LET call == pipeline.last[1]
        g == Cardinality(GapPairs(call.window))
        z == Cardinality(ZeroVolumeCandles(call.window))
        expected == Max(1000, Discounted(8000, g, z))
    IN Abs(ReturnedFeatures(call).metadata.confidence - expected) <= g + z

\* C26 as the source computes it: 0.1 for a window of fewer than 5 candles,
\* and the first candle's volume not counted.
C26_FeatureConfidenceFromFive ==
  pipeline.last # <<>> /\ pipeline.last[1].outcome = "returned" =>
    LET call == pipeline.last[1]
        g == Cardinality(GapPairs(call.window))
        z == Cardinality(ZeroVolumeCandles(call.window) \ {1})
        expected == IF Len(call.window) < 5 THEN 1000
                    ELSE Max(1000, Discounted(8000, g, z))
    IN Abs(ReturnedFeatures(call).metadata.confidence - expected) <= g + z

\* C29: in every feature vector extractFeatures returns, the MACD component
\* technicalIndicators[3] is 0.
C29_MACDIsZero ==
  pipeline.last # <<>> /\ pipeline.last[1].outcome = "returned" =>
    At(ReturnedFeatures(pipeline.last[1]).technicalIndicators, 3) = 0

\* C29, for a currentIndex that is not negative: the window holds fewer than
\* 26 candles and the MACD component is 0.
C29_MACDIsZeroFromIndexZero ==
  pipeline.last # <<>> /\ pipeline.last[1].currentIndex >= 0 =>
    /\ Len(pipeline.last[1].window) < MACDMinimum
    /\ pipeline.last[1].outcome = "returned" =>
         At(ReturnedFeatures(pipeline.last[1]).technicalIndicators, 3) = 0

\* C28: in every report, also of a run that processed no candle,
\* maxDrawdownPercentage is a finite number >= 0, the largest drawdown on the
\* equity curve or 0 when the curve is empty, and maxDrawdown is that
\* fraction of initialCapital.
C28_MaxDrawdown ==
  \A c \in CallIds :
    calls[c].results # <<>> =>
      LET r == calls[c].results[1]
          largest == IF r.equityCurve = <<>> THEN 0
                     ELSE CHOOSE d \in {e.drawdown : e \in Range(r.equityCurve)} :
                            \A e \in Range(r.equityCurve) : e.drawdown <= d
      IN /\ IsFinite(r.maxDrawdownPercentage)
         /\ r.maxDrawdownPercentage >= 0
         /\ r.maxDrawdownPercentage = largest
         /\ r.maxDrawdown = Mul(r.config.initialCapital, largest)

\* C28 for the runs that processed a candle
C28_MaxDrawdownOfProcessedRuns ==
  \A c \in CallIds :
    calls[c].results # <<>> /\ calls[c].results[1].equityCurve # <<>> =>
      LET r == calls[c].results[1]
          largest == CHOOSE d \in {e.drawdown : e \in Range(r.equityCurve)} :
                       \A e \in Range(r.equityCurve) : e.drawdown <= d
      IN /\ IsFinite(r.maxDrawdownPercentage)
         /\ r.maxDrawdownPercentage >= 0
         /\ r.maxDrawdownPercentage = largest
         /\ r.maxDrawdown = Mul(r.config.initialCapital, largest)
\* C27: every report has its six ratios finite, and a ratio whose denominator
\* is zero is 0: the win rate of a run with no closed trade, the Sharpe ratio
\* of returns that do not vary, the Sortino ratio of returns none of which is
\* below riskFreeRate / 252, the Calmar ratio and the recovery factor of a
\* run with no drawdown, and the profit factor of a run whose losing trades
\* average to no loss.
ReportOf(call) == call.results[1]

RatiosFinite(r) ==
  /\ IsFinite(r.winRate) /\ IsFinite(r.sharpeRatio) /\ IsFinite(r.sortinoRatio)
  /\ IsFinite(r.calmarRatio) /\ IsFinite(r.recoveryFactor)
  /\ IsFinite(r.profitFactor)

NoVariation(returns) ==
  \A j, k \in 1..Len(returns) : returns[j] = returns[k]

NoneBelowTarget(returns, cfg) ==
  \A k \in 1..Len(returns) : 252 * returns[k] >= cfg.riskFreeRate

NoAverageLoss(r) ==
  LET losses == SelectSeq(r.trades, LAMBDA t : t.pnl <= 0)
  IN Len(losses) = 0 \/ SumSeq(Field(losses, "pnl")) \div Len(losses) = 0

ZeroDenominatorsGiveZero(r) ==
  /\ r.totalTrades = 0 => r.winRate = 0
  /\ NoVariation(r.dailyReturns) => r.sharpeRatio = 0
  /\ NoneBelowTarget(r.dailyReturns, r.config) => r.sortinoRatio = 0
  /\ r.maxDrawdownPercentage = 0 => r.calmarRatio = 0 /\ r.recoveryFactor = 0
  /\ NoAverageLoss(r) => r.profitFactor = 0

C27_RatiosGuarded ==
  \A c \in CallIds :
    calls[c].results # <<>> =>
      /\ RatiosFinite(ReportOf(calls[c]))
      /\ ZeroDenominatorsGiveZero(ReportOf(calls[c]))


\* A report of a run over four candles that closed no trade: its returns are
\* 0 and 0, its drawdown is 0, and every ratio but the Sortino ratio has a
\* zero denominator.
C27_Witness ==
  /\ calls[1].results # <<>>
  /\ LET r == ReportOf(calls[1])
     IN /\ r.totalTrades = 0
        /\ r.dailyReturns = <<0, 0>>
        /\ r.maxDrawdownPercentage = 0
        /\ r.winRate = 0 /\ r.sharpeRatio = 0 /\ r.calmarRatio = 0
        /\ r.recoveryFactor = 0 /\ r.profitFactor = 0
        /\ r.sortinoRatio < 0

\* the call `k` of the log comes after a subscribe(eventType, observer) and
\* a later unsubscribe(eventType, observer), with no subscribe of that pair
\* in between
IsCall(entry, op, eventType, observer) ==
  entry.op = op /\ entry.eventType = eventType /\ entry.observer = observer

UnsubscribedBefore(log, k, eventType, observer) ==
  \E j \in 1..(k - 1) :
    /\ IsCall(log[j], "unsubscribe", eventType, observer)
    /\ \E i \in 1..(j - 1) : IsCall(log[i], "subscribe", eventType, observer)
    /\ \A m \in (j + 1)..(k - 1) : ~IsCall(log[m], "subscribe", eventType, observer)

\* what getSubscriptions reports for eventType, 0 for a type it does not list
Counted(bus, eventType) ==
  IF eventType \in DOMAIN getSubscriptions(bus)
    THEN getSubscriptions(bus)[eventType]
    ELSE 0

HandlersOfOthers(bus, eventType, observer) ==
  IF eventType \in DOMAIN bus.handlers
    THEN Len(SelectSeq(bus.handlers[eventType], LAMBDA h : h.observer # observer))
    ELSE 0

\* C30: once subscribe(eventType, observer) has been followed by
\* unsubscribe(eventType, observer), a publish of an event of that type does
\* not call the observer's handle, and getSubscriptions counts for that type
\* only the handlers of other observers.
C30_UnsubscribedIsSilent ==
  /\ \A k \in 1..Len(eventBus.log) :
       eventBus.log[k].op = "publish" =>
         \A o \in Observers :
           UnsubscribedBefore(eventBus.log, k, eventBus.log[k].eventType, o) =>
             o \notin Range(eventBus.log[k].invoked)
  /\ \A t \in EventTypes, o \in Observers :
       UnsubscribedBefore(eventBus.log, Len(eventBus.log) + 1, t, o) =>
         Counted(eventBus, t) = HandlersOfOthers(eventBus, t, o)

\* C30 as the source behaves: unsubscribe deletes a function it has just
\* created, which is no member of the Set, so no call ever removes a handler.
C30_HandlersOnlyGrow ==
  [][\A t \in DOMAIN eventBus.handlers :
       /\ t \in DOMAIN eventBus'.handlers
       /\ Len(eventBus'.handlers[t]) >= Len(eventBus.handlers[t])]_vars

====
